---- MODULE Spec2Model ----
(***************************************************************************)
(* Back-testing engines of HullAlgoTrading: the pair engine                *)
(* (HullMABackTesting), the straddle engine (RuleEngine2), the calendar    *)
(* spread engine (RuleEngine3) and the performance analytics               *)
(* (StrategyAnalysis, ConsecutiveWinLoss).                                 *)
(*                                                                         *)
(* Conventions.  A python Optional is None == <<>> or Some(x) == <<x>>.    *)
(* A date is a day number counted from a Monday (weekday = date % 7), a    *)
(* datetime is date * MinutesPerDay + minute of the day.  Prices are in    *)
(* paise (1/100), so round(x, 2) is a rounding to an integer; the rounding *)
(* is the exact round-half-even of python, not the binary float's.         *)
(***************************************************************************)
EXTENDS Integers, Sequences, FiniteSets, TLC

None == <<>>
Some(x) == <<x>>
Val(o) == o[1]

Min(S) == CHOOSE x \in S : \A y \in S : x <= y
Max2(a, b) == IF a >= b THEN a ELSE b
Min2(a, b) == IF a <= b THEN a ELSE b

(***************************************************************************)
(* Bounds of the model.                                                    *)
(***************************************************************************)
\* rows of the input sheet that one run reads
MaxRows == 3
\* the Contracts column of a row is 1..MaxLot
MaxLot == 2

(***************************************************************************)
(* datetime                                                                *)
(***************************************************************************)
MinutesPerDay == 24 * 60
Time(hour, minute) == hour * 60 + minute
Combine(date, tm) == date * MinutesPerDay + tm
DateOf(dt) == dt \div MinutesPerDay
TimeOf(dt) == dt % MinutesPerDay
HourOf(dt) == TimeOf(dt) \div 60
MinuteOf(dt) == TimeOf(dt) % 60
Weekday(date) == date % 7

\* The days of the run: a Wednesday, the Thursday (weekly expiry) and the Friday.
TradingDays == {2, 3, 4}
\* The minutes at which the price series hold a bar.
BarMinutes == {Time(9, 15), Time(12, 0), Time(15, 25), Time(15, 29)}
BarTimes == {Combine(d, m) : d \in TradingDays, m \in BarMinutes}

(***************************************************************************)
(* constant.py                                                             *)
(***************************************************************************)
SL_EXIT == "SL Exit"
EXIT_SIGNAL == "Exit Signal"
EXPIRY_EXIT == "Expiry Exit"
CE_PREMIUM_EXIT == "CE not traded due to premium check"
NO_TRADE == "No Trade"
SOFT_EXIT == "Soft Exit"
INVALID_EXIT == "Invalid Exit"
TAKE_PROFIT_EXIT == "Take Profit Exit"
ENTRY_SIGNAL == "Entry Signal"
SOFT_ENTRY == "Soft Entry"

(***************************************************************************)
(* round(x, 2) of a price n / d paise, n >= 0: round half to even.         *)
(***************************************************************************)
Round2(n, d) ==
    LET q == n \div d
        r == n % d
    IN  IF 2 * r < d THEN q
        ELSE IF 2 * r > d THEN q + 1
        ELSE IF q % 2 = 0 THEN q ELSE q + 1

(***************************************************************************)
(* Price series: a list of HistoricalPrice rows ascending by               *)
(* ticker_datetime, as fetch_historical_data returns it.                   *)
(***************************************************************************)
SortedSeq(S) ==
    [i \in 1..Cardinality(S) |->
        CHOOSE t \in S : Cardinality({u \in S : u < t}) = i - 1]

BarTimeSeq == SortedSeq(BarTimes)

Series(f) ==
    [i \in 1..Len(BarTimeSeq) |->
        [ticker_datetime |-> BarTimeSeq[i], close |-> f[BarTimeSeq[i]]]]

\* A lookup that takes the first row at or after dt, of whatever day.
PriceByDatetimeAnyDay(historical_data, dt) ==
    LET idx == {i \in 1..Len(historical_data) : historical_data[i].ticker_datetime >= dt}
    IN  IF idx = {} THEN None ELSE Some(historical_data[Min(idx)].close)

\* get_historical_price_by_datetime: the close of the first row of the same day at or
\* after dt; None stands for the BackTestingError raised when there is none.
PriceByDatetime(historical_data, dt) ==
    LET idx == {i \in 1..Len(historical_data) :
                    /\ DateOf(historical_data[i].ticker_datetime) = DateOf(dt)
                    /\ historical_data[i].ticker_datetime >= dt}
    IN  IF idx = {} THEN None ELSE Some(historical_data[Min(idx)].close)

\* A range that takes the row at end_datetime in.
PriceRangeDataToEnd(historical_data, start_datetime, end_datetime) ==
    SelectSeq(historical_data,
              LAMBDA x : start_datetime < x.ticker_datetime
                         /\ x.ticker_datetime <= end_datetime)

\* get_historical_price_range_data: the rows strictly between start and end.
PriceRangeData(historical_data, start_datetime, end_datetime) ==
    SelectSeq(historical_data,
              LAMBDA x : start_datetime < x.ticker_datetime
                         /\ x.ticker_datetime < end_datetime)

NoHit == [hit |-> FALSE, close |-> 0, ticker_datetime |-> 0]

\* "for data in price_data: if <test>: return True, data.close, data.ticker_datetime"
\* idx: the positions of the rows that pass the test.
FirstHit(price_data, idx) ==
    IF idx = {} THEN NoHit
    ELSE [hit |-> TRUE, close |-> price_data[Min(idx)].close,
          ticker_datetime |-> price_data[Min(idx)].ticker_datetime]

(***************************************************************************)
(* strategy_analysis.py                                                    *)
(***************************************************************************)
NewConsecutiveWinLoss ==
    [prev_trade |-> 0, temp_consecutive_win |-> 0, consecutive_win |-> 0,
     temp_consecutive_loss |-> 0, consecutive_loss |-> 0]

\* A tracker that counts the trade that breaks a streak as the first of the new one.
ComputeCountsBreaker(c, profit_loss) ==
    IF profit_loss <= 0 /\ c.prev_trade <= 0
    THEN [c EXCEPT !.prev_trade = -1, !.temp_consecutive_loss = @ + 1]
    ELSE IF profit_loss > 0 /\ c.prev_trade >= 0
    THEN [c EXCEPT !.prev_trade = 1, !.temp_consecutive_win = @ + 1]
    ELSE IF profit_loss <= 0
    THEN [c EXCEPT !.prev_trade = -1,
                   !.consecutive_win = Max2(c.consecutive_win, c.temp_consecutive_win),
                   !.temp_consecutive_win = 0, !.temp_consecutive_loss = 1]
    ELSE [c EXCEPT !.prev_trade = 1,
                   !.consecutive_loss = Max2(c.consecutive_loss, c.temp_consecutive_loss),
                   !.temp_consecutive_loss = 0, !.temp_consecutive_win = 1]

\* ConsecutiveWinLoss.compute
Compute(c, profit_loss) ==
    IF profit_loss <= 0 /\ c.prev_trade <= 0
    THEN [c EXCEPT !.prev_trade = -1, !.temp_consecutive_loss = @ + 1]
    ELSE IF profit_loss > 0 /\ c.prev_trade >= 0
    THEN [c EXCEPT !.prev_trade = 1, !.temp_consecutive_win = @ + 1]
    ELSE IF profit_loss <= 0 /\ 0 < c.prev_trade
    THEN [c EXCEPT !.prev_trade = -1,
                   !.consecutive_win = Max2(c.consecutive_win, c.temp_consecutive_win),
                   !.temp_consecutive_win = 0]
    ELSE IF c.prev_trade < 0 /\ 0 < profit_loss
    THEN [c EXCEPT !.prev_trade = 1,
                   !.consecutive_loss = Max2(c.consecutive_loss, c.temp_consecutive_loss),
                   !.temp_consecutive_loss = 0]
    ELSE c

NewStrategyAnalysis ==
    [lot_size |-> 0, total_trades |-> 0, profit |-> 0, loss |-> 0,
     win_trades |-> 0, loss_trades |-> 0,
     consecutive_win_loss |-> NewConsecutiveWinLoss,
     initial_capital |-> None, equity_curve |-> <<>>]

\* An equity curve whose every point starts from the initial capital.
ComputeEquityCurveFromCapital(sa, profit_loss) ==
    IF sa.initial_capital # None
    THEN [sa EXCEPT !.equity_curve = Append(@, Val(sa.initial_capital) + profit_loss)]
    ELSE sa

\* StrategyAnalysis.compute_equity_curve
ComputeEquityCurve(sa, profit_loss) ==
    IF sa.initial_capital # None
    THEN IF sa.equity_curve # <<>>
         THEN [sa EXCEPT !.equity_curve =
                    Append(@, sa.equity_curve[Len(sa.equity_curve)] + profit_loss)]
         ELSE [sa EXCEPT !.equity_curve = <<Val(sa.initial_capital) + profit_loss>>]
    ELSE sa

\* A block that takes a trade of no profit and no loss for a win.
RecordTradeZeroWins(sa, profit_loss) ==
    LET a1 == IF profit_loss >= 0
              THEN [sa EXCEPT !.profit = @ + profit_loss, !.win_trades = @ + 1]
              ELSE [sa EXCEPT !.loss = @ + profit_loss, !.loss_trades = @ + 1]
        a2 == [a1 EXCEPT !.consecutive_win_loss = Compute(@, profit_loss)]
    IN  ComputeEquityCurve(a2, profit_loss)

\* The "Strategy analysis" block that every leg exit runs.
RecordTrade(sa, profit_loss) ==
    LET a1 == IF profit_loss > 0
              THEN [sa EXCEPT !.profit = @ + profit_loss, !.win_trades = @ + 1]
              ELSE [sa EXCEPT !.loss = @ + profit_loss, !.loss_trades = @ + 1]
        a2 == [a1 EXCEPT !.consecutive_win_loss = Compute(@, profit_loss)]
    IN  ComputeEquityCurve(a2, profit_loss)

\* The derived properties of StrategyAnalysis.  Amounts are whole paise and a ratio is
\* held in hundredths, so round(x, 2) is Round2 of the numerator over the denominator.
\* A property is [raised, value]: raised stands for the ZeroDivisionError of a division
\* by 0, value is None where the property returns None.
Returned(value) == [raised |-> FALSE, value |-> Some(value)]
ReturnedNone == [raised |-> FALSE, value |-> None]
ZeroDivisionError == [raised |-> TRUE, value |-> None]
Abs(n) == IF n < 0 THEN -n ELSE n

\* round(numerator / denominator, 2), the division as Python evaluates it.
Divide(numerator, denominator) ==
    IF denominator = 0 THEN ZeroDivisionError
    ELSE Returned(Round2(numerator, denominator))

\* StrategyAnalysis.profit_loss
ProfitLoss(sa) == sa.profit + sa.loss

\* StrategyAnalysis.avg_win: "if self.win_trades"
AvgWin(sa) ==
    IF sa.win_trades # 0 THEN Divide(sa.profit, sa.win_trades) ELSE Returned(0)

\* StrategyAnalysis.avg_loss: "if self.loss_trades"
AvgLoss(sa) ==
    IF sa.loss_trades # 0 THEN Divide(sa.loss, sa.loss_trades) ELSE Returned(0)

\* StrategyAnalysis.ending_capital
EndingCapital(sa) ==
    IF sa.initial_capital = None THEN ReturnedNone
    ELSE Returned(Val(sa.initial_capital) + ProfitLoss(sa))

\* StrategyAnalysis.capital_returns: no test but "initial_capital is None"
CapitalReturns(sa) ==
    IF sa.initial_capital = None THEN ReturnedNone
    ELSE Divide(Val(EndingCapital(sa).value) * 10000, Val(sa.initial_capital))

\* StrategyAnalysis.win_percent: "if self.total_trades"
WinPercent(sa) ==
    IF sa.total_trades # 0 THEN Divide(sa.win_trades * 10000, sa.total_trades)
    ELSE Returned(0)

\* StrategyAnalysis.loss_percent: "if self.total_trades"
LossPercent(sa) ==
    IF sa.total_trades # 0 THEN Divide(sa.loss_trades * 10000, sa.total_trades)
    ELSE Returned(0)

\* StrategyAnalysis.win_ratio: "if self.loss_trades"
WinRatio(sa) ==
    IF sa.loss_trades # 0 THEN Divide(sa.win_trades * 100, sa.loss_trades)
    ELSE Returned(0)

\* StrategyAnalysis.avg_win_loss: "if self.avg_loss"
AvgWinLoss(sa) ==
    IF Val(AvgLoss(sa).value) # 0
    THEN Divide(Val(AvgWin(sa).value) * 100, Abs(Val(AvgLoss(sa).value)))
    ELSE Returned(0)

\* StrategyAnalysis.profit_potential: "if self.avg_loss and self.loss_trades"
ProfitPotential(sa) ==
    IF Val(AvgLoss(sa).value) # 0 /\ sa.loss_trades # 0
    THEN Divide(Val(AvgWin(sa).value) * sa.win_trades * 100,
                Abs(Val(AvgLoss(sa).value)) * sa.loss_trades)
    ELSE Returned(0)

\* np.argmax: the first position of the largest value (positions from 1); None stands
\* for the ValueError numpy raises for an empty sequence.
ArgMax(seq) ==
    IF seq = <<>> THEN None
    ELSE Some(Min({i \in 1..Len(seq) : \A j \in 1..Len(seq) : seq[i] >= seq[j]}))

\* np.maximum.accumulate(equity_curve) - equity_curve
DeclineFromRunningMax(equity_curve) ==
    [j \in 1..Len(equity_curve) |->
        equity_curve[CHOOSE i \in 1..j : \A k \in 1..j : equity_curve[i] >= equity_curve[k]]
            - equity_curve[j]]

\* StrategyAnalysis.drawdown: [raised, value], raised standing for the ValueError of
\* np.argmax.  The values are whole paise, which round(max_dd, 2) leaves as they are.
Drawdown(sa) ==
    IF sa.initial_capital = None THEN [raised |-> FALSE, value |-> None]
    ELSE LET trough == ArgMax(DeclineFromRunningMax(sa.equity_curve))
         IN  IF trough = None THEN [raised |-> TRUE, value |-> None]
             ELSE LET peak == ArgMax(SubSeq(sa.equity_curve, 1, Val(trough) - 1))
                  IN  IF peak = None THEN [raised |-> TRUE, value |-> None]
                      ELSE [raised |-> FALSE,
                            value |-> Some(sa.equity_curve[Val(peak)]
                                            - sa.equity_curve[Val(trough)])]

(***************************************************************************)
(* base_backtesting.py                                                     *)
(***************************************************************************)
IsHoliday(holidays, date) == date \in holidays

GetCurrentWeekExpiry(signal_date) == signal_date + ((3 - Weekday(signal_date)) % 7)

GetNextWeekExpiry(signal_date) == signal_date + ((3 - Weekday(signal_date)) % 7) + 7

RECURSIVE WalkBack(_, _)
WalkBack(holidays, date) ==
    IF Weekday(date - 1) \in {5, 6} \/ IsHoliday(holidays, date - 1)
    THEN WalkBack(holidays, date - 1)
    ELSE date - 1

GetValidExpiry(holidays, expiry) ==
    IF IsHoliday(holidays, expiry) THEN WalkBack(holidays, expiry) ELSE expiry

RECURSIVE GetNextValidDate(_, _)
GetNextValidDate(holidays, current_exit_date) ==
    IF Weekday(current_exit_date + 1) \in {5, 6}
       \/ IsHoliday(holidays, current_exit_date + 1)
    THEN GetNextValidDate(holidays, current_exit_date + 1)
    ELSE current_exit_date + 1

GetMarketHourDatetime(holidays, signal_datetime) ==
    IF HourOf(signal_datetime) = 9 /\ MinuteOf(signal_datetime) < 15
    THEN Combine(DateOf(signal_datetime), Time(9, 15))
    ELSE IF HourOf(signal_datetime) = 15 /\ MinuteOf(signal_datetime) > 29
    THEN Combine(GetNextValidDate(holidays, DateOf(signal_datetime)), Time(9, 15))
    ELSE signal_datetime

GetNearest50Strike(index) == (index \div 50) * 50

\* An allow-list test that looks at the time range alone.
IsDataMissingAnyStrike(config, strike, dt) ==
    \E x \in config.missing_data : x.start_datetime <= dt /\ dt <= x.end_datetime

\* is_data_missing: the manual allow-list of the config file
IsDataMissing(config, strike, dt) ==
    \E x \in config.missing_data :
        x.strike = strike /\ x.start_datetime <= dt /\ dt <= x.end_datetime

(***************************************************************************)
(* instrument.py                                                           *)
(***************************************************************************)
Instrument(lot_size, entry, expiry, option_type, strike, price, sl_price) ==
    [lot_size |-> lot_size, entry |-> entry, expiry |-> expiry,
     option_type |-> option_type, strike |-> strike, price |-> price,
     sl_price |-> sl_price]

(***************************************************************************)
(* hull_ma_strategy.py: HullMABackTesting, the pair engine.  The object is *)
(* a record; its fields are the attributes of the class.                   *)
(***************************************************************************)
NewHullMABackTesting(config) ==
    [config |-> config,
     holidays |-> {},
     CE_ENTRY_INSTRUMENT |-> None,
     PE_ENTRY_INSTRUMENT |-> None,
     ce_historical_data |-> <<>>,
     pe_historical_data |-> <<>>,
     output_df |-> <<>>,
     trade_count |-> 0,
     entry_datetime |-> None,
     active_instrument_expiry |-> None,
     entry_strike |-> None,
     trade_ce_next_day |-> FALSE,
     trade_pe_next_day |-> FALSE,
     ce_sl |-> None,
     pe_sl |-> None,
     pe_strategy_analysis |->
        [NewStrategyAnalysis EXCEPT !.initial_capital = config.initial_capital_pe],
     ce_strategy_analysis |->
        [NewStrategyAnalysis EXCEPT !.initial_capital = config.initial_capital_ce],
     raised |-> FALSE]

\* PairInstrument.is_entry_taken
HullIsEntryTaken(s) == s.CE_ENTRY_INSTRUMENT # None \/ s.PE_ENTRY_INSTRUMENT # None

HullHistoricalData(s, option_type) ==
    IF option_type = "CE" THEN s.ce_historical_data ELSE s.pe_historical_data

\* The stop-loss price instrument_stop_loss_hit tests the bars against.
HullSlPrice(s, instrument, stop_loss) ==
    IF instrument.option_type = "CE"
    THEN IF s.ce_sl = None
         THEN IF stop_loss = 100 THEN 0
              ELSE Round2((100 - stop_loss) * instrument.price, 100)
         ELSE Val(s.ce_sl)
    ELSE IF s.pe_sl = None
         THEN Round2((100 + stop_loss) * instrument.price, 100)
         ELSE Val(s.pe_sl)

\* A bar test that takes a close at the stop-loss price for a hit.
HullSlConditionAtPrice(option_type, close, instrument_sl_price) ==
    \/ option_type = "CE" /\ close <= instrument_sl_price
    \/ option_type = "PE" /\ close >= instrument_sl_price

\* The bar test of instrument_stop_loss_hit: long CE below, short PE above.
HullSlCondition(option_type, close, instrument_sl_price) ==
    \/ option_type = "CE" /\ close < instrument_sl_price
    \/ option_type = "PE" /\ close > instrument_sl_price

HullInstrumentStopLossHit(s, instrument, stop_loss, exit_datetime) ==
    LET price_data == PriceRangeData(HullHistoricalData(s, instrument.option_type),
                                     instrument.entry, exit_datetime)
        instrument_sl_price == HullSlPrice(s, instrument, stop_loss)
    IN  FirstHit(price_data,
                 {i \in 1..Len(price_data) :
                     HullSlCondition(instrument.option_type, price_data[i].close,
                                     instrument_sl_price)})

\* The target price instrument_take_profit_hit tests the bars against.
HullTargetPrice(instrument, profit_percent) ==
    IF instrument.option_type = "CE"
    THEN Round2((100 + profit_percent) * instrument.price, 100)
    ELSE IF profit_percent = 100 THEN 0
         ELSE Round2((100 - profit_percent) * instrument.price, 100)

HullTpCondition(option_type, close, instrument_target_price) ==
    \/ option_type = "CE" /\ close >= instrument_target_price
    \/ option_type = "PE" /\ close <= instrument_target_price

HullInstrumentTakeProfitHit(s, instrument, profit_percent, exit_datetime) ==
    LET price_data == PriceRangeData(HullHistoricalData(s, instrument.option_type),
                                     instrument.entry, exit_datetime)
        instrument_target_price == HullTargetPrice(instrument, profit_percent)
    IN  FirstHit(price_data,
                 {i \in 1..Len(price_data) :
                     HullTpCondition(instrument.option_type, price_data[i].close,
                                     instrument_target_price)})

\* A premium check that lets every long leg through.
TradeCeInstrumentAlways(config, ce_instrument) == TRUE

\* trade_ce_instrument: the premium check of the long leg
TradeCeInstrument(config, ce_instrument) ==
    IF config.ce_premium_check # None
    THEN ~ (ce_instrument.price * ce_instrument.lot_size * config.quantity_per_lot
                > Val(config.ce_premium_check).premium * ce_instrument.lot_size)
    ELSE TRUE

\* get_ce_entry_instrument / get_pe_entry_instrument: [raised, instrument]
HullGetEntryInstrument(s, option_type, historical_data, entry_strike, entry_datetime, lot_size, expiry) ==
    LET found == PriceByDatetime(historical_data, entry_datetime)
        entry_price == IF found = None THEN 0 ELSE Val(found)
    IN  [raised |-> found = None /\ ~IsDataMissing(s.config, entry_strike, entry_datetime),
         instrument |-> Instrument(lot_size, entry_datetime, expiry, option_type,
                                   entry_strike, entry_price, None)]

\* HullMABackTesting.entry.  ce_data and pe_data are what fetch_historical_price reads
\* from the database for the strikes and the expiry.
HullEntry(s, ce_entry_strike, pe_entry_strike, entry_datetime, lot_size, expiry, soft_entry, ce_data, pe_data) ==
    LET s0 == [s EXCEPT !.ce_historical_data = ce_data,
                        !.pe_historical_data = pe_data,
                        !.pe_strategy_analysis.lot_size = Max2(@, lot_size),
                        !.ce_strategy_analysis.lot_size = Max2(@, lot_size)]
        close_position_day_end == s.config.close_position_day_end
        take_ce == ~soft_entry \/ s.trade_ce_next_day
        ce == HullGetEntryInstrument(s0, "CE", ce_data, ce_entry_strike,
                                     entry_datetime, lot_size, expiry)
        ce_traded == TradeCeInstrument(s.config, ce.instrument)
        s1 == IF ~take_ce THEN s0
              ELSE IF ce_traded
              THEN [s0 EXCEPT !.CE_ENTRY_INSTRUMENT = Some(ce.instrument)]
              ELSE [s0 EXCEPT !.CE_ENTRY_INSTRUMENT = None,
                              !.trade_ce_next_day =
                                  IF close_position_day_end THEN FALSE ELSE @]
        ce_instrument_price == IF take_ce THEN ce.instrument.price ELSE 0
        ce_entry_type == IF take_ce /\ ce_traded
                         THEN (IF soft_entry THEN SOFT_ENTRY ELSE ENTRY_SIGNAL)
                         ELSE ""
        take_pe == ~soft_entry \/ s.trade_pe_next_day
        pe == HullGetEntryInstrument(s1, "PE", pe_data, pe_entry_strike,
                                     entry_datetime, lot_size, expiry)
        s2 == IF take_pe THEN [s1 EXCEPT !.PE_ENTRY_INSTRUMENT = Some(pe.instrument)]
              ELSE s1
        pe_instrument_price == IF take_pe THEN pe.instrument.price ELSE 0
        pe_entry_type == IF take_pe
                         THEN (IF soft_entry THEN SOFT_ENTRY ELSE ENTRY_SIGNAL)
                         ELSE ""
        row == [Trade |-> s2.trade_count + 1,
                Expiry |-> expiry,
                LotSize |-> IF s2.PE_ENTRY_INSTRUMENT # None
                            THEN Val(s2.PE_ENTRY_INSTRUMENT).lot_size
                            ELSE Val(s2.CE_ENTRY_INSTRUMENT).lot_size,
                PEStrike |-> Some(pe_entry_strike),
                PEEntryExitTime |-> entry_datetime,
                PESell |-> pe_instrument_price,
                PEProfitLoss |-> 0,
                PEEntryExitType |-> pe_entry_type,
                CEStrike |-> Some(ce_entry_strike),
                CEEntryExitTime |-> entry_datetime,
                CEBuy |-> ce_instrument_price,
                CEProfitLoss |-> 0,
                CEEntryExitType |-> ce_entry_type]
    IN  IF take_ce /\ ce.raised THEN [s0 EXCEPT !.raised = TRUE]
        ELSE IF take_pe /\ pe.raised THEN [s1 EXCEPT !.raised = TRUE]
        ELSE IF s2.CE_ENTRY_INSTRUMENT = None /\ s2.PE_ENTRY_INSTRUMENT = None THEN s2
        ELSE [s2 EXCEPT
                !.trade_count = @ + 1,
                !.pe_strategy_analysis.total_trades =
                    IF s2.PE_ENTRY_INSTRUMENT # None THEN @ + 1 ELSE @,
                !.ce_strategy_analysis.total_trades =
                    IF s2.CE_ENTRY_INSTRUMENT # None THEN @ + 1 ELSE @,
                !.output_df = Append(@, row)]

\* A decision that takes whichever of the two scans hit the earlier bar.
HullExitDecisionEarliest(sl, tp) ==
    IF sl.hit /\ (~tp.hit \/ sl.ticker_datetime <= tp.ticker_datetime) THEN "sl_hit"
    ELSE IF tp.hit THEN "profit_hit"
    ELSE "else"

\* exit(): "if ce_instrument_sl_hit: ... elif ce_instrument_profit_hit: ... else: ...",
\* the branch that sets a leg's exit price, time and type.
HullExitDecision(sl, tp) ==
    IF sl.hit THEN "sl_hit"
    ELSE IF tp.hit THEN "profit_hit"
    ELSE "else"

\* An expiry test that counts the expiry day itself as past the expiry.
HullPastExpiryFromExpiryDay(exit_datetime, expiry) == DateOf(exit_datetime) >= expiry

\* exit(): "if exit_datetime.date() > expiry"
HullPastExpiry(exit_datetime, expiry) == DateOf(exit_datetime) > expiry

\* exit(): the time an exit after the expiry is pinned to
HullExpiryDatetime(expiry) == Combine(expiry, Time(15, 29))

\* An outcome whose profit or loss is that of the whole size the leg holds.
HullLegOutcomeWholeLeg(s, instrument, sl, tp, found, actual_exit_datetime, exit_type, lot_size, soft_exit) ==
    LET option_type == instrument.option_type
        decision == HullExitDecision(sl, tp)
        exit_price == IF decision = "sl_hit" THEN sl.close
                      ELSE IF decision = "profit_hit" THEN tp.close
                      ELSE IF found = None THEN 0 ELSE Val(found)
    IN  [raised |-> decision = "else" /\ found = None
                    /\ ~IsDataMissing(s.config, instrument.strike, actual_exit_datetime),
         exit_price |-> exit_price,
         profit_loss |-> IF option_type = "CE"
                         THEN (exit_price - instrument.price) * instrument.lot_size
                                  * s.config.quantity_per_lot
                         ELSE (instrument.price - exit_price) * instrument.lot_size
                                  * s.config.quantity_per_lot,
         exit_type |-> IF decision = "sl_hit" THEN SL_EXIT
                       ELSE IF decision = "profit_hit" THEN TAKE_PROFIT_EXIT
                       ELSE exit_type,
         actual_exit_datetime |-> IF decision = "sl_hit" THEN sl.ticker_datetime
                                  ELSE IF decision = "profit_hit" THEN tp.ticker_datetime
                                  ELSE actual_exit_datetime,
         trade_next_day_off |-> soft_exit /\ decision # "else", exited |-> TRUE]

\* One leg's part of HullMABackTesting.exit once its scans are done (the CE block and the
\* PE block have the same shape): the choice of exit type, time and price and the profit
\* or loss.  sl and tp are the results of the two scans, found the price at the nominal
\* exit time; actual_exit_datetime and exit_type come in as the expiry-capped nominal
\* values.
HullLegOutcome(s, instrument, sl, tp, found, actual_exit_datetime, exit_type, lot_size, soft_exit) ==
    LET option_type == instrument.option_type
        decision == HullExitDecision(sl, tp)
        exit_price == IF decision = "sl_hit" THEN sl.close
                      ELSE IF decision = "profit_hit" THEN tp.close
                      ELSE IF found = None THEN 0 ELSE Val(found)
    IN  [raised |-> decision = "else" /\ found = None
                    /\ ~IsDataMissing(s.config, instrument.strike, actual_exit_datetime),
         exit_price |-> exit_price,
         profit_loss |-> IF option_type = "CE"
                         THEN (exit_price - instrument.price) * lot_size
                                  * s.config.quantity_per_lot
                         ELSE (instrument.price - exit_price) * lot_size
                                  * s.config.quantity_per_lot,
         exit_type |-> IF decision = "sl_hit" THEN SL_EXIT
                       ELSE IF decision = "profit_hit" THEN TAKE_PROFIT_EXIT
                       ELSE exit_type,
         actual_exit_datetime |-> IF decision = "sl_hit" THEN sl.ticker_datetime
                                  ELSE IF decision = "profit_hit" THEN tp.ticker_datetime
                                  ELSE actual_exit_datetime,
         trade_next_day_off |-> soft_exit /\ decision # "else", exited |-> TRUE]

\* One leg's part of HullMABackTesting.exit: the two scans of an open leg and their
\* outcome, or the row of a leg that is not open.
HullExitLeg(s, option_type, actual_exit_datetime, exit_type, lot_size, soft_exit) ==
    LET slot == IF option_type = "CE" THEN s.CE_ENTRY_INSTRUMENT ELSE s.PE_ENTRY_INSTRUMENT
        sl_check == s.config.SL_check
        take_profit_check == s.config.take_profit_check
    IN  IF slot = None
        THEN [raised |-> FALSE, exit_price |-> 0, profit_loss |-> 0,
              exit_type |-> IF soft_exit THEN NO_TRADE
                            ELSE IF option_type = "CE" THEN CE_PREMIUM_EXIT
                            ELSE INVALID_EXIT,
              actual_exit_datetime |-> actual_exit_datetime,
              trade_next_day_off |-> soft_exit, exited |-> FALSE]
        ELSE HullLegOutcome(
                s, Val(slot),
                IF sl_check # None
                THEN HullInstrumentStopLossHit(s, Val(slot), Val(sl_check)[option_type],
                                               actual_exit_datetime)
                ELSE NoHit,
                IF take_profit_check # None
                THEN HullInstrumentTakeProfitHit(s, Val(slot),
                                                 Val(take_profit_check)[option_type],
                                                 actual_exit_datetime)
                ELSE NoHit,
                PriceByDatetime(HullHistoricalData(s, option_type), actual_exit_datetime),
                actual_exit_datetime, exit_type, lot_size, soft_exit)

\* exit(): the expiry-capped nominal exit time and exit type of both legs.
HullNominalExit(s, exit_datetime, soft_exit) ==
    LET active_instrument == IF s.PE_ENTRY_INSTRUMENT # None
                             THEN Val(s.PE_ENTRY_INSTRUMENT)
                             ELSE Val(s.CE_ENTRY_INSTRUMENT)
        expiry == active_instrument.expiry
        past_expiry == HullPastExpiry(exit_datetime, expiry)
    IN  [expiry |-> expiry,
         datetime |-> IF past_expiry THEN HullExpiryDatetime(expiry) ELSE exit_datetime,
         type |-> IF soft_exit THEN SOFT_EXIT
                  ELSE IF past_expiry THEN EXPIRY_EXIT ELSE EXIT_SIGNAL]

\* A bookkeeping that runs the strategy analysis for a leg that is not open too.
HullAfterLegRecordsAlways(s, option_type, leg, lot_size) ==
    IF option_type = "CE"
    THEN [s EXCEPT !.CE_ENTRY_INSTRUMENT =
                        IF leg.exited THEN Some([Val(@) EXCEPT !.lot_size = @ - lot_size])
                        ELSE @,
                   !.ce_strategy_analysis = RecordTrade(@, leg.profit_loss),
                   !.trade_ce_next_day = IF leg.trade_next_day_off THEN FALSE ELSE @]
    ELSE [s EXCEPT !.PE_ENTRY_INSTRUMENT =
                        IF leg.exited THEN Some([Val(@) EXCEPT !.lot_size = @ - lot_size])
                        ELSE @,
                   !.pe_strategy_analysis = RecordTrade(@, leg.profit_loss),
                   !.trade_pe_next_day = IF leg.trade_next_day_off THEN FALSE ELSE @]

\* A bookkeeping that leaves the next-day flags as they are.
HullAfterLegKeepsFlags(s, option_type, leg, lot_size) ==
    IF ~leg.exited THEN s
    ELSE IF option_type = "CE"
    THEN [s EXCEPT !.CE_ENTRY_INSTRUMENT[1].lot_size = @ - lot_size,
                   !.ce_strategy_analysis = RecordTrade(@, leg.profit_loss)]
    ELSE [s EXCEPT !.PE_ENTRY_INSTRUMENT[1].lot_size = @ - lot_size,
                   !.pe_strategy_analysis = RecordTrade(@, leg.profit_loss)]

\* A bookkeeping without the "for safe side" branch of a leg that is not open.
HullAfterLegOpenOnly(s, option_type, leg, lot_size) ==
    IF option_type = "CE"
    THEN IF leg.exited
         THEN [s EXCEPT !.CE_ENTRY_INSTRUMENT[1].lot_size = @ - lot_size,
                        !.ce_strategy_analysis = RecordTrade(@, leg.profit_loss),
                        !.trade_ce_next_day = IF leg.trade_next_day_off THEN FALSE ELSE @]
         ELSE s
    ELSE IF leg.exited
         THEN [s EXCEPT !.PE_ENTRY_INSTRUMENT[1].lot_size = @ - lot_size,
                        !.pe_strategy_analysis = RecordTrade(@, leg.profit_loss),
                        !.trade_pe_next_day = IF leg.trade_next_day_off THEN FALSE ELSE @]
         ELSE s

\* exit(): the bookkeeping that follows a leg's block: the lot size left, the strategy
\* analysis and the next-day flag.
HullAfterLeg(s, option_type, leg, lot_size) ==
    IF option_type = "CE"
    THEN IF leg.exited
         THEN [s EXCEPT !.CE_ENTRY_INSTRUMENT[1].lot_size = @ - lot_size,
                        !.ce_strategy_analysis = RecordTrade(@, leg.profit_loss),
                        !.trade_ce_next_day = IF leg.trade_next_day_off THEN FALSE ELSE @]
         ELSE [s EXCEPT !.trade_ce_next_day = IF leg.trade_next_day_off THEN FALSE ELSE @]
    ELSE IF leg.exited
         THEN [s EXCEPT !.PE_ENTRY_INSTRUMENT[1].lot_size = @ - lot_size,
                        !.pe_strategy_analysis = RecordTrade(@, leg.profit_loss),
                        !.trade_pe_next_day = IF leg.trade_next_day_off THEN FALSE ELSE @]
         ELSE [s EXCEPT !.trade_pe_next_day = IF leg.trade_next_day_off THEN FALSE ELSE @]

\* exit(): the output row and the clearing of the legs whose lot size reached 0.  s is
\* the engine before the exit, s1 after the CE block, ce and pe the legs' outcomes.
HullExitRecord(s, s1, expiry, lot_size, ce, pe) ==
    LET row == [Trade |-> s.trade_count,
                Expiry |-> expiry,
                LotSize |-> lot_size,
                PEStrike |-> IF s.PE_ENTRY_INSTRUMENT # None
                             THEN Some(Val(s.PE_ENTRY_INSTRUMENT).strike) ELSE None,
                PEEntryExitTime |-> pe.actual_exit_datetime,
                PESell |-> pe.exit_price,
                PEProfitLoss |-> pe.profit_loss,
                PEEntryExitType |-> pe.exit_type,
                CEStrike |-> IF s.CE_ENTRY_INSTRUMENT # None
                             THEN Some(Val(s.CE_ENTRY_INSTRUMENT).strike) ELSE None,
                CEEntryExitTime |-> ce.actual_exit_datetime,
                CEBuy |-> ce.exit_price,
                CEProfitLoss |-> ce.profit_loss,
                CEEntryExitType |-> ce.exit_type]
        cleared(slot) == IF slot # None /\ Val(slot).lot_size = 0 THEN None ELSE slot
    IN  IF pe.raised THEN [s1 EXCEPT !.raised = TRUE]
        ELSE [HullAfterLeg(s1, "PE", pe, lot_size) EXCEPT
                !.output_df = Append(@, row),
                !.PE_ENTRY_INSTRUMENT = cleared(@),
                !.CE_ENTRY_INSTRUMENT = cleared(@)]

\* exit(): the PE block and the end of exit, s1 being the engine after the CE block.
HullExitPe(s, s1, nominal, lot_size, soft_exit, ce) ==
    HullExitRecord(s, s1, nominal.expiry, lot_size, ce,
                   HullExitLeg(s1, "PE", nominal.datetime, nominal.type, lot_size,
                               soft_exit))

\* exit(): what follows the CE block, ce being its outcome.
HullExitCe(s, nominal, lot_size, soft_exit, ce) ==
    IF ce.raised THEN [s EXCEPT !.raised = TRUE]
    ELSE HullExitPe(s, HullAfterLeg(s, "CE", ce, lot_size), nominal, lot_size, soft_exit,
                    ce)

\* exit(): the two blocks under the nominal exit time and type.
HullExitAt(s, nominal, lot_size, soft_exit) ==
    HullExitCe(s, nominal, lot_size, soft_exit,
               HullExitLeg(s, "CE", nominal.datetime, nominal.type, lot_size, soft_exit))

\* HullMABackTesting.exit
HullExit(s, exit_datetime, lot_size, soft_exit) ==
    IF s.PE_ENTRY_INSTRUMENT = None /\ s.CE_ENTRY_INSTRUMENT = None
    THEN [s EXCEPT !.raised = TRUE]
    ELSE HullExitAt(s, HullNominalExit(s, exit_datetime, soft_exit), lot_size, soft_exit)

RECURSIVE SoftLoop(_, _, _, _)

\* An iteration that leaves the loop right after its soft entry.
SoftDayEntryBreaks(s2, next_date, exit_datetime, lot_size) == s2

\* soft_entry_exit: the end of an iteration, s2 being the engine after the soft entry of
\* next_date.
SoftDayEntry(s2, next_date, exit_datetime, lot_size) ==
    IF s2.raised THEN s2
    ELSE IF s2.CE_ENTRY_INSTRUMENT = None /\ s2.PE_ENTRY_INSTRUMENT = None THEN s2
    ELSE SoftLoop(s2, next_date, exit_datetime, lot_size)

\* soft_entry_exit: an iteration after its soft exit, s1 being the engine after the exit
\* at 15:25; the soft entry at 09:15 of next_date.
SoftDayExit(s, s1, next_date, exit_datetime, lot_size) ==
    IF s1.raised THEN s1
    ELSE IF ~s1.trade_pe_next_day /\ ~s1.trade_ce_next_day THEN s1
    ELSE SoftDayEntry(HullEntry(s1, Val(s.entry_strike), Val(s.entry_strike),
                                Combine(next_date, Time(9, 15)), lot_size,
                                Val(s.active_instrument_expiry), TRUE,
                                s.ce_historical_data, s.pe_historical_data),
                      next_date, exit_datetime, lot_size)

\* The while loop of HullMABackTesting.soft_entry_exit from the iteration of exit_date
\* on (use_ce_atm_strike and use_pe_atm_strike are off: every soft entry takes the strike
\* of the signal entry, so fetch_historical_price reads the same two series again).
SoftLoop(s, exit_date, exit_datetime, lot_size) ==
    LET final_exit_date == Min2(DateOf(exit_datetime), Val(s.active_instrument_expiry))
    IN  IF exit_date > final_exit_date THEN s
        ELSE IF exit_date = final_exit_date THEN HullExit(s, exit_datetime, lot_size, FALSE)
        ELSE SoftDayExit(s, HullExit(s, Combine(exit_date, Time(15, 25)), lot_size, TRUE),
                         GetNextValidDate(s.holidays, exit_date), exit_datetime, lot_size)

\* HullMABackTesting.soft_entry_exit
SoftEntryExit(s, exit_datetime, lot_size) ==
    SoftLoop(s, DateOf(Val(s.entry_datetime)), exit_datetime, lot_size)

\* The ENTRY branch of the loop of HullMABackTesting.process_input
HullProcessEntry(s, row, ce_data, pe_data) ==
    LET entry_datetime == GetMarketHourDatetime(s.holidays, row.DateTime)
        entry_strike == GetNearest50Strike(row.Price)
        expiry == GetValidExpiry(s.holidays, GetCurrentWeekExpiry(DateOf(entry_datetime)))
        s0 == [s EXCEPT !.entry_datetime = Some(entry_datetime),
                        !.entry_strike = Some(entry_strike),
                        !.active_instrument_expiry = Some(expiry)]
        s1 == HullEntry(s0, entry_strike, entry_strike, entry_datetime, row.Contracts,
                        expiry, FALSE, ce_data, pe_data)
    IN  IF s1.raised THEN s1
        ELSE [s1 EXCEPT !.trade_pe_next_day =
                            IF s.config.close_position_day_end THEN TRUE ELSE @,
                        !.trade_ce_next_day =
                            IF s.config.close_position_day_end THEN TRUE ELSE @,
                        !.ce_sl = None,
                        !.pe_sl = None]

\* The EXIT branch of the loop of HullMABackTesting.process_input
HullProcessExit(s, row) ==
    LET exit_datetime == GetMarketHourDatetime(s.holidays, row.DateTime)
    IN  IF s.config.close_position_day_end
        THEN SoftEntryExit(s, exit_datetime, row.Contracts)
        ELSE HullExit(s, exit_datetime, row.Contracts, FALSE)

\* The for loop of HullMABackTesting.process_input over the rows of a whole sheet, from
\* row i on; each row comes with the series fetch_historical_price reads at its entry.
\* The fatal error leaves the loop.
RECURSIVE HullProcessInput(_, _, _)
HullProcessInput(s, rows, i) ==
    IF i > Len(rows) \/ s.raised THEN s
    ELSE IF rows[i].row.Signal = "ET" /\ ~HullIsEntryTaken(s)
    THEN HullProcessInput(HullProcessEntry(s, rows[i].row, rows[i].data[1], rows[i].data[2]),
                          rows, i + 1)
    ELSE IF rows[i].row.Signal = "EX" /\ HullIsEntryTaken(s)
    THEN HullProcessInput(HullProcessExit(s, rows[i].row), rows, i + 1)
    ELSE HullProcessInput(s, rows, i + 1)

\* A second execution that starts from the trade count an earlier run left behind.
HullExecuteAgainStale(config, rows) ==
    HullProcessInput([NewHullMABackTesting(config) EXCEPT !.trade_count = 1], rows, 1)

\* main, run once more on the same config file, sheet and database: a new
\* HullMABackTesting object and its process_input.
HullExecuteAgain(config, rows) == HullProcessInput(NewHullMABackTesting(config), rows, 1)

(***************************************************************************)
(* Trailing stop-loss of a short leg: the loop shared by                   *)
(* RuleEngine2.instrument_stop_loss_hit and                                *)
(* RuleEngine3.calendar_stop_loss_hit.                                     *)
(***************************************************************************)
\* The candidate stop-loss price of a bar.
TrailCandidate(stop_loss, close) == Round2((100 + stop_loss) * close, 100)

\* An update that adopts the candidate of every bar.
TrailUpdateAlways(stored_sl_price, candidate) == candidate

\* "if sl_price < instrument.sl_price: instrument.sl_price = sl_price"
TrailUpdate(stored_sl_price, candidate) ==
    IF candidate < stored_sl_price THEN candidate ELSE stored_sl_price

\* The scan from bar i on.  sl_price is the one stored on the instrument; the result
\* carries the stored price the scan leaves behind, and updates lists, for every bar the
\* scan visited, the stored price before the bar, the bar's close and the stored price
\* after the bar.
RECURSIVE TrailingScan(_, _, _, _, _, _)
TrailingScan(price_data, i, sl_price, stop_loss, trailing_sl, updates) ==
    IF i > Len(price_data)
    THEN [hit |-> FALSE, close |-> 0, ticker_datetime |-> 0,
          sl_price |-> sl_price, updates |-> updates]
    ELSE LET data == price_data[i]
             new_sl == IF trailing_sl
                       THEN TrailUpdate(sl_price, TrailCandidate(stop_loss, data.close))
                       ELSE sl_price
             seen == Append(updates, [before |-> sl_price, close |-> data.close,
                                      after |-> new_sl])
         IN  IF data.close > new_sl
             THEN [hit |-> TRUE, close |-> data.close,
                   ticker_datetime |-> data.ticker_datetime,
                   sl_price |-> new_sl, updates |-> seen]
             ELSE TrailingScan(price_data, i + 1, new_sl, stop_loss, trailing_sl, seen)

(***************************************************************************)
(* rule_engine3.py: RuleEngine3, the calendar spread engine.               *)
(***************************************************************************)
ENTRY_LONG == "ETL"
EXIT_LONG == "EXL"
ENTRY_SHORT == "ETS"
EXIT_SHORT == "EXS"

NewRuleEngine3(config) ==
    [config |-> config,
     holidays |-> {},
     PE_CALENDAR |-> None,
     CE_CALENDAR |-> None,
     historical_data |-> <<>>,
     output_df |-> <<>>,
     trade_count |-> 0,
     strategy_analysis |->
        [NewStrategyAnalysis EXCEPT !.initial_capital = config.initial_capital],
     sl_updates |-> <<>>,
     raised |-> FALSE]

\* A test that looks at the PE calendar alone.
Re3IsEntryTakenPeOnly(s) == s.PE_CALENDAR # None

\* Calendar.is_entry_taken
Re3IsEntryTaken(s) == s.PE_CALENDAR # None \/ s.CE_CALENDAR # None

\* get_nearest_100_strike
GetNearest100Strike(index, n) == Round2(index + n, 100) * 100

\* RuleEngine3.get_entry_instrument: [raised, instrument]
Re3GetEntryInstrument(s, historical_data, entry_strike, entry_datetime, lot_size, expiry, option_type) ==
    LET found == PriceByDatetime(historical_data[expiry], entry_datetime)
        entry_price == IF found = None THEN 0 ELSE Val(found)
    IN  [raised |-> found = None /\ ~IsDataMissing(s.config, entry_strike, entry_datetime),
         instrument |-> Instrument(lot_size, entry_datetime, expiry, option_type,
                                   entry_strike, entry_price, None)]

\* RuleEngine3.get_instrument_exit_price: [raised, price]
Re3GetInstrumentExitPrice(s, instrument, exit_datetime) ==
    LET found == PriceByDatetime(s.historical_data[instrument.expiry], exit_datetime)
    IN  [raised |-> found = None
                    /\ ~IsDataMissing(s.config, instrument.strike, exit_datetime),
         price |-> IF found = None THEN 0 ELSE Val(found)]

\* trade_ce_calendar / trade_pe_calendar: [raised, calendar]
TradeCalendar(s, historical_data, option_type, strike, entry_datetime, lot_size, current_expiry, next_expiry, stop_loss) ==
    LET cur == Re3GetEntryInstrument(s, historical_data, strike, entry_datetime, lot_size,
                                     current_expiry, option_type)
        nxt == Re3GetEntryInstrument(s, historical_data, strike, entry_datetime, lot_size,
                                     next_expiry, option_type)
        sl_price == IF stop_loss # None
                    THEN Some(Round2((100 + Val(stop_loss)) * nxt.instrument.price, 100))
                    ELSE None
    IN  [raised |-> cur.raised \/ nxt.raised,
         calendar |-> [current_week_instrument |-> cur.instrument,
                       next_week_instrument |->
                            [nxt.instrument EXCEPT !.sl_price = sl_price]]]

\* RuleEngine3.entry.  current_data and next_data are what fetch_historical_price reads
\* from the database for the strike and the two expiries.
Re3Entry(s, price, signal, entry_datetime, lot_size, current_expiry, next_expiry, current_data, next_data) ==
    LET delta == IF signal = ENTRY_LONG THEN s.config.pe_strike ELSE s.config.ce_strike
        strike == GetNearest100Strike(price, delta)
        option_type == IF signal = ENTRY_LONG THEN "PE" ELSE "CE"
        historical_data == (current_expiry :> current_data) @@ (next_expiry :> next_data)
                           @@ s.historical_data
        s0 == [s EXCEPT !.historical_data = historical_data]
        sl_check == s.config.SL_check
        stop_loss == IF sl_check # None THEN Some(Val(sl_check)[option_type]) ELSE None
        traded == TradeCalendar(s0, historical_data, option_type, strike, entry_datetime,
                                lot_size, current_expiry, next_expiry, stop_loss)
        cal == traded.calendar
        s1 == IF signal = ENTRY_LONG
              THEN [s0 EXCEPT !.PE_CALENDAR = Some(cal)]
              ELSE [s0 EXCEPT !.CE_CALENDAR = Some(cal)]
        isPE == signal = ENTRY_LONG
        row == [Trade |-> s.trade_count + 1,
                Expiry |-> current_expiry,
                LotSize |-> lot_size,
                EntryExitType |-> signal,
                StrikePrice |-> price,
                PEEntryExitTime |-> IF isPE THEN Some(entry_datetime) ELSE None,
                PEStrike |-> IF isPE THEN Some(strike) ELSE None,
                PECurrentWeekPrice |->
                    IF isPE THEN Some(cal.current_week_instrument.price) ELSE None,
                PEForwardWeekPrice |->
                    IF isPE THEN Some(cal.next_week_instrument.price) ELSE None,
                CEEntryExitTime |-> IF isPE THEN None ELSE Some(entry_datetime),
                CEStrike |-> IF isPE THEN None ELSE Some(strike),
                CECurrentWeekPrice |->
                    IF isPE THEN None ELSE Some(cal.current_week_instrument.price),
                CEForwardWeekPrice |->
                    IF isPE THEN None ELSE Some(cal.next_week_instrument.price),
                CurrentWeekProfitLoss |-> 0,
                ForwardWeekProfitLoss |-> 0,
                NetProfitLoss |-> 0]
    IN  IF traded.raised THEN [s0 EXCEPT !.raised = TRUE]
        ELSE [s1 EXCEPT
                !.trade_count = @ + 1,
                !.strategy_analysis.lot_size = Max2(@, lot_size),
                !.strategy_analysis.total_trades = @ + 1,
                !.output_df = Append(@, row),
                !.sl_updates = <<>>]

\* RuleEngine3.calendar_stop_loss_hit; the result carries the sl_price the scan leaves on
\* calendar.next_week_instrument.
CalendarStopLossHit(s, calendar, exit_datetime, stop_loss, trailing_sl) ==
    LET price_data == PriceRangeData(s.historical_data[calendar.next_week_instrument.expiry],
                                     calendar.next_week_instrument.entry, exit_datetime)
    IN  TrailingScan(price_data, 1, Val(calendar.next_week_instrument.sl_price),
                     stop_loss, trailing_sl, <<>>)

\* A pin to the last bar of the expiry day, as the pair engine has it.
Re3ExpiryDatetimeAt1529(expiry) == Combine(expiry, Time(15, 29))

\* exit(): the time an exit after the expiry is pinned to
Re3ExpiryDatetime(expiry) == Combine(expiry, Time(15, 25))

\* A reduction that takes the lots out of the buy leg alone.
Re3ReduceBuyLegOnly(calendar, lot_size) ==
    [calendar EXCEPT !.current_week_instrument.lot_size = @ - lot_size]

\* exit(): "Reduce the lot size", of both legs of the active calendar
Re3ReduceLotSize(calendar, lot_size) ==
    [calendar EXCEPT !.current_week_instrument.lot_size = @ - lot_size,
                     !.next_week_instrument.lot_size = @ - lot_size]

\* RuleEngine3.exit
Re3Exit(s, price, exit_datetime, lot_size) ==
    LET isPE == s.CE_CALENDAR = None
        active_calendar == IF s.CE_CALENDAR # None THEN Val(s.CE_CALENDAR)
                           ELSE Val(s.PE_CALENDAR)
        current_expiry == active_calendar.current_week_instrument.expiry
        past_expiry == DateOf(exit_datetime) > current_expiry
        nominal_type == IF past_expiry THEN EXPIRY_EXIT ELSE EXIT_SIGNAL
        nominal_datetime == IF past_expiry THEN Re3ExpiryDatetime(current_expiry)
                            ELSE exit_datetime
        sl_check == s.config.SL_check
        scan == CalendarStopLossHit(s, active_calendar, nominal_datetime,
                                    Val(sl_check)[IF isPE THEN "PE" ELSE "CE"],
                                    s.config.trailing_sl)
        calendar_sl_hit == sl_check # None /\ scan.hit
        \* the scan leaves its trailed price on the sell leg
        calendar == IF sl_check # None
                    THEN [active_calendar EXCEPT
                            !.next_week_instrument.sl_price = Some(scan.sl_price)]
                    ELSE active_calendar
        actual_exit_datetime == IF calendar_sl_hit THEN scan.ticker_datetime
                                ELSE nominal_datetime
        exit_type == IF calendar_sl_hit THEN SL_EXIT ELSE nominal_type
        buy == Re3GetInstrumentExitPrice(s, calendar.current_week_instrument,
                                         actual_exit_datetime)
        sell == IF calendar_sl_hit THEN [raised |-> FALSE, price |-> scan.close]
                ELSE Re3GetInstrumentExitPrice(s, calendar.next_week_instrument,
                                               actual_exit_datetime)
        current_week_pnl == (buy.price - calendar.current_week_instrument.price)
                                * lot_size * s.config.quantity_per_lot
        forward_week_pnl == (calendar.next_week_instrument.price - sell.price)
                                * lot_size * s.config.quantity_per_lot
        net_pnl == current_week_pnl + forward_week_pnl
        row == [Trade |-> s.trade_count,
                Expiry |-> current_expiry,
                LotSize |-> lot_size,
                EntryExitType |-> exit_type,
                StrikePrice |-> price,
                PEEntryExitTime |-> IF isPE THEN Some(actual_exit_datetime) ELSE None,
                PEStrike |-> IF isPE THEN Some(calendar.current_week_instrument.strike)
                             ELSE None,
                PECurrentWeekPrice |-> IF isPE THEN Some(buy.price) ELSE None,
                PEForwardWeekPrice |-> IF isPE THEN Some(sell.price) ELSE None,
                CEEntryExitTime |-> IF isPE THEN None ELSE Some(actual_exit_datetime),
                CEStrike |-> IF isPE THEN None
                             ELSE Some(calendar.current_week_instrument.strike),
                CECurrentWeekPrice |-> IF isPE THEN None ELSE Some(buy.price),
                CEForwardWeekPrice |-> IF isPE THEN None ELSE Some(sell.price),
                CurrentWeekProfitLoss |-> current_week_pnl,
                ForwardWeekProfitLoss |-> forward_week_pnl,
                NetProfitLoss |-> net_pnl]
        reduced == Re3ReduceLotSize(calendar, lot_size)
        closed == reduced.current_week_instrument.lot_size = 0
        trailed(slot) == IF slot = None THEN None ELSE Some(calendar)
        after(slot) == IF slot = None \/ closed THEN None ELSE Some(reduced)
        s0 == [s EXCEPT !.PE_CALENDAR = IF isPE THEN trailed(@) ELSE @,
                        !.CE_CALENDAR = IF isPE THEN @ ELSE trailed(@),
                        !.sl_updates = IF sl_check # None THEN @ \o scan.updates ELSE @]
    IN  IF s.CE_CALENDAR = None /\ s.PE_CALENDAR = None THEN [s EXCEPT !.raised = TRUE]
        ELSE IF buy.raised \/ sell.raised THEN [s0 EXCEPT !.raised = TRUE]
        ELSE IF reduced.current_week_instrument.lot_size
                    # reduced.next_week_instrument.lot_size
        THEN [s0 EXCEPT !.strategy_analysis = RecordTrade(@, net_pnl),
                        !.output_df = Append(@, row),
                        !.PE_CALENDAR = IF isPE THEN Some(reduced) ELSE @,
                        !.CE_CALENDAR = IF isPE THEN @ ELSE Some(reduced),
                        !.raised = TRUE]
        ELSE [s0 EXCEPT !.strategy_analysis = RecordTrade(@, net_pnl),
                        !.output_df = Append(@, row),
                        !.PE_CALENDAR = IF isPE THEN after(@) ELSE @,
                        !.CE_CALENDAR = IF isPE THEN @ ELSE after(@)]

(***************************************************************************)
(* rule_engine2.py: RuleEngine2, the daily straddle / strangle engine.     *)
(* Both legs are short and both trail their stop-loss.                     *)
(***************************************************************************)
NewRuleEngine2(config) ==
    [config |-> config,
     holidays |-> {},
     current_date |-> config.backtesting_start_date,
     CE_ENTRY_INSTRUMENT |-> None,
     PE_ENTRY_INSTRUMENT |-> None,
     ce_historical_data |-> <<>>,
     pe_historical_data |-> <<>>,
     output_df |-> <<>>,
     trade_count |-> 0,
     pe_strategy_analysis |->
        [NewStrategyAnalysis EXCEPT !.initial_capital = config.initial_capital_pe],
     ce_strategy_analysis |->
        [NewStrategyAnalysis EXCEPT !.initial_capital = config.initial_capital_ce],
     sl_updates |-> [CE |-> <<>>, PE |-> <<>>],
     raised |-> FALSE]

\* is_valid_trading_day
IsValidTradingDay(holidays, date) ==
    ~ (Weekday(date) \in {5, 6} \/ IsHoliday(holidays, date))

\* RuleEngine2.get_ce_entry_instrument / get_pe_entry_instrument: [raised, instrument]
Re2GetEntryInstrument(s, option_type, historical_data, entry_strike, entry_datetime, lot_size, expiry, stop_loss) ==
    LET found == PriceByDatetime(historical_data, entry_datetime)
        entry_price == IF found = None THEN 0 ELSE Val(found)
        sl_price == IF stop_loss # None
                    THEN Some(Round2((100 + Val(stop_loss)) * entry_price, 100))
                    ELSE None
    IN  [raised |-> found = None /\ ~IsDataMissing(s.config, entry_strike, entry_datetime),
         instrument |-> Instrument(lot_size, entry_datetime, expiry, option_type,
                                   entry_strike, entry_price, sl_price)]

\* RuleEngine2.entry
Re2Entry(s, ce_entry_strike, pe_entry_strike, entry_datetime, lot_size, expiry, ce_data, pe_data) ==
    LET s0 == [s EXCEPT !.ce_historical_data = ce_data, !.pe_historical_data = pe_data]
        sl_check == s.config.SL_check
        ce == Re2GetEntryInstrument(s0, "CE", ce_data, ce_entry_strike, entry_datetime,
                                    lot_size, expiry,
                                    IF sl_check # None THEN Some(Val(sl_check).CE) ELSE None)
        s1 == [s0 EXCEPT !.CE_ENTRY_INSTRUMENT = Some(ce.instrument)]
        pe == Re2GetEntryInstrument(s1, "PE", pe_data, pe_entry_strike, entry_datetime,
                                    lot_size, expiry,
                                    IF sl_check # None THEN Some(Val(sl_check).PE) ELSE None)
        row == [Trade |-> s.trade_count + 1,
                Expiry |-> expiry,
                LotSize |-> lot_size,
                PEStrike |-> Some(pe_entry_strike),
                PEEntryExitTime |-> entry_datetime,
                PESell |-> pe.instrument.price,
                PEProfitLoss |-> 0,
                PEEntryExitType |-> ENTRY_SIGNAL,
                CEStrike |-> Some(ce_entry_strike),
                CEEntryExitTime |-> entry_datetime,
                CEBuy |-> ce.instrument.price,
                CEProfitLoss |-> 0,
                CEEntryExitType |-> ENTRY_SIGNAL]
    IN  IF ce.raised THEN [s0 EXCEPT !.raised = TRUE]
        ELSE IF pe.raised THEN [s1 EXCEPT !.raised = TRUE]
        ELSE [s1 EXCEPT !.PE_ENTRY_INSTRUMENT = Some(pe.instrument),
                        !.trade_count = @ + 1,
                        !.pe_strategy_analysis.total_trades = @ + 1,
                        !.ce_strategy_analysis.total_trades = @ + 1,
                        !.output_df = Append(@, row),
                        !.sl_updates = [CE |-> <<>>, PE |-> <<>>]]

\* RuleEngine2.instrument_stop_loss_hit; the result carries the sl_price the scan leaves on
\* the instrument.
Re2InstrumentStopLossHit(s, instrument, exit_datetime, stop_loss) ==
    LET historical_data == IF instrument.option_type = "CE" THEN s.ce_historical_data
                           ELSE s.pe_historical_data
        price_data == PriceRangeData(historical_data, instrument.entry, exit_datetime)
    IN  TrailingScan(price_data, 1, Val(instrument.sl_price), stop_loss, TRUE, <<>>)

\* RuleEngine2.exit
Re2Exit(s, exit_datetime, expiry) ==
    LET sl_check == s.config.SL_check
        ce_instrument == Val(s.CE_ENTRY_INSTRUMENT)
        pe_instrument == Val(s.PE_ENTRY_INSTRUMENT)
        ce_scan == Re2InstrumentStopLossHit(s, ce_instrument, exit_datetime,
                                            Val(sl_check).CE)
        pe_scan == Re2InstrumentStopLossHit(s, pe_instrument, exit_datetime,
                                            Val(sl_check).PE)
        ce_instrument_sl_hit == sl_check # None /\ ce_scan.hit
        pe_instrument_sl_hit == sl_check # None /\ pe_scan.hit
        s0 == IF sl_check # None
              THEN [s EXCEPT !.CE_ENTRY_INSTRUMENT[1].sl_price = Some(ce_scan.sl_price),
                             !.PE_ENTRY_INSTRUMENT[1].sl_price = Some(pe_scan.sl_price),
                             !.sl_updates.CE = @ \o ce_scan.updates,
                             !.sl_updates.PE = @ \o pe_scan.updates]
              ELSE s
        ce_found == PriceByDatetime(s.ce_historical_data, exit_datetime)
        ce_raised == ~ce_instrument_sl_hit /\ ce_found = None
                     /\ ~IsDataMissing(s.config, ce_instrument.strike, exit_datetime)
        ce_exit_price == IF ce_instrument_sl_hit THEN ce_scan.close
                         ELSE IF ce_found = None THEN 0 ELSE Val(ce_found)
        ce_profit_loss == (ce_instrument.price - ce_exit_price) * ce_instrument.lot_size
                            * s.config.quantity_per_lot
        s1 == [s0 EXCEPT !.ce_strategy_analysis = RecordTrade(@, ce_profit_loss)]
        pe_found == PriceByDatetime(s.pe_historical_data, exit_datetime)
        pe_raised == ~pe_instrument_sl_hit /\ pe_found = None
                     /\ ~IsDataMissing(s.config, pe_instrument.strike, exit_datetime)
        pe_exit_price == IF pe_instrument_sl_hit THEN pe_scan.close
                         ELSE IF pe_found = None THEN 0 ELSE Val(pe_found)
        pe_profit_loss == (pe_instrument.price - pe_exit_price) * pe_instrument.lot_size
                            * s.config.quantity_per_lot
        row == [Trade |-> s.trade_count,
                Expiry |-> expiry,
                LotSize |-> pe_instrument.lot_size,
                PEStrike |-> Some(pe_instrument.strike),
                PEEntryExitTime |-> IF pe_instrument_sl_hit THEN pe_scan.ticker_datetime
                                    ELSE exit_datetime,
                PESell |-> pe_exit_price,
                PEProfitLoss |-> pe_profit_loss,
                PEEntryExitType |-> IF pe_instrument_sl_hit THEN SL_EXIT ELSE EXIT_SIGNAL,
                CEStrike |-> Some(ce_instrument.strike),
                CEEntryExitTime |-> IF ce_instrument_sl_hit THEN ce_scan.ticker_datetime
                                    ELSE exit_datetime,
                CEBuy |-> ce_exit_price,
                CEProfitLoss |-> ce_profit_loss,
                CEEntryExitType |-> IF ce_instrument_sl_hit THEN SL_EXIT ELSE EXIT_SIGNAL]
    IN  IF ce_raised THEN [s0 EXCEPT !.raised = TRUE]
        ELSE IF pe_raised THEN [s1 EXCEPT !.raised = TRUE]
        ELSE [s1 EXCEPT !.pe_strategy_analysis = RecordTrade(@, pe_profit_loss),
                        !.output_df = Append(@, row),
                        !.CE_ENTRY_INSTRUMENT = None,
                        !.PE_ENTRY_INSTRUMENT = None]

\* One iteration of the loop of RuleEngine2.trade_straddle_strangle, for current_date.
\* nifty is what get_atm_strike finds: the close of the index minute at or after
\* entry_time, or None when the minute data of the day is missing.
Re2TradeDate(s, nifty, ce_data, pe_data) ==
    LET current_date == s.current_date
        entry_datetime == Combine(current_date, s.config.entry_time)
        atm_strike == GetNearest50Strike(Val(nifty))
        expiry == GetValidExpiry(s.holidays, GetCurrentWeekExpiry(current_date))
        s1 == Re2Entry(s, atm_strike + s.config.ce_strike, atm_strike + s.config.pe_strike,
                       entry_datetime, s.config.lot_size, expiry, ce_data, pe_data)
        s2 == Re2Exit(s1, Combine(current_date, s.config.exit_time), expiry)
        next(x) == [x EXCEPT !.current_date = current_date + 1]
    IN  IF ~IsValidTradingDay(s.holidays, current_date) THEN next(s)
        ELSE IF nifty = None
        THEN IF \E x \in s.config.missing_data :
                    x.strike = 1 /\ x.start_datetime <= entry_datetime
                    /\ entry_datetime <= x.end_datetime
             THEN next(s)
             ELSE [s EXCEPT !.raised = TRUE]
        ELSE IF s1.raised THEN s1
        ELSE IF s2.raised THEN s2
        ELSE next(s2)

(***************************************************************************)
(* The inputs of a run: the config file, the rows of the input sheet and   *)
(* the price series of the database.                                       *)
(***************************************************************************)
\* The Date/Time column of the rows: Wednesday's open and close, the close of the expiry
\* day and the open of the day after the expiry.
SignalTimes ==
    {Combine(2, Time(9, 15)), Combine(2, Time(15, 29)), Combine(3, Time(15, 29)),
     Combine(4, Time(9, 15))}
\* The Price column (the index) of the rows.
SignalPrices == {17025}

\* The bars at which a series may leave its base price.
EventTimes ==
    {Combine(2, Time(12, 0)), Combine(2, Time(15, 25)), Combine(2, Time(15, 29)),
     Combine(3, Time(9, 15))}

Flat(base) == [t \in BarTimes |-> base]

\* The series that leave base at no more than two bars, none of them before `from`
\* (the engines read no bar older than the entry).
Shapes(base, alts, from) ==
    LET times == {t \in EventTimes : t >= from}
        one == {[Flat(base) EXCEPT ![t] = c] : t \in times, c \in alts}
        two == {[f EXCEPT ![t] = c] : f \in one, t \in times, c \in alts}
    IN  {Flat(base)} \cup one \cup two

\* Pair engine: one of the two legs moves, closes of 70.00, 100.00 and 130.00.
PairData(from) ==
    LET moving == {Series(f) : f \in Shapes(10000, {7000, 13000}, from)}
        still == Series(Flat(10000))
    IN  {<<m, still>> : m \in moving} \cup {<<still, m>> : m \in moving}

\* Trailing engines: the short leg moves, closes of 90.00, 100.00 and 110.00.
TrailingData(from) == {Series(f) : f \in Shapes(10000, {9000, 11000}, from)}

Percent(ce, pe) == [CE |-> ce, PE |-> pe]

HullConfigs ==
    {[SL_check |-> sl, take_profit_check |-> tp, close_position_day_end |-> c,
      ce_premium_check |-> None, quantity_per_lot |-> 2, missing_data |-> {},
      initial_capital_ce |-> Some(100000), initial_capital_pe |-> Some(100000)] :
        sl \in {None, Some(Percent(20, 20))},
        tp \in {None, Some(Percent(20, 20))},
        c \in BOOLEAN}

\* The configs of the pair engine with a ce_premium_check of 200.00 per lot: at a
\* quantity_per_lot of 2 a CE premium of 130.00 exceeds it, one of 100.00 does not.
HullPremiumConfigs ==
    {[c EXCEPT !.ce_premium_check = Some([premium |-> 20000])] : c \in HullConfigs}

\* The configs of the pair engine with a stop-loss of the long leg of 50 and of 100
\* per cent and no take-profit, and their database: the CE at 100.25, with closes of
\* 50.12 (the stop-loss price of 50 per cent) and of 50.11, the PE still.
HullStopConfigs ==
    {[c EXCEPT !.SL_check = Some(Percent(p, 20))] :
        c \in {h \in HullConfigs : h.SL_check = None /\ h.take_profit_check = None},
        p \in {50, 100}}
StopData(from) ==
    {<<Series(f), Series(Flat(10000))>> : f \in Shapes(10025, {5012, 5011}, from)}

\* The configs of the pair engine with a missing_data list: the close of Wednesday, of
\* the strike the signals resolve to or of the next strike.
HullMissingConfigs ==
    {[c EXCEPT !.missing_data =
            {[strike |-> k, start_datetime |-> Combine(2, Time(15, 25)),
              end_datetime |-> Combine(2, Time(15, 29))]}] :
        c \in HullConfigs, k \in {17000, 17050}}

\* The bars a series of the database may lack: the last bar of Wednesday, the last bar
\* of Thursday, every bar of Wednesday.
Gaps ==
    {{}, {Combine(2, Time(15, 29))}, {Combine(3, Time(15, 29))},
     {Combine(2, m) : m \in BarMinutes}}

\* A series at 100.00 without the bars of gap.
Gapped(gap) ==
    SelectSeq(Series(Flat(10000)), LAMBDA x : x.ticker_datetime \notin gap)

\* The series fetch_historical_price may read at an entry: a database that lacks bars
\* is read by the runs whose config lists missing data.
HullDatabase(config, from) ==
    IF config \in HullStopConfigs THEN StopData(from)
    ELSE IF config.missing_data = {} THEN PairData(from)
    ELSE {<<Gapped(ce), Gapped(pe)>> : ce \in Gaps, pe \in Gaps}

Re3Configs ==
    {[SL_check |-> sl, trailing_sl |-> tr, ce_strike |-> 0, pe_strike |-> 0,
      quantity_per_lot |-> 2, missing_data |-> {}, initial_capital |-> Some(100000)] :
        sl \in {None, Some(Percent(20, 20))}, tr \in BOOLEAN}

\* The analytics alone: the initial_capital of the config file, the profit_loss values
\* of the leg exits (a zero is a loss) and how many of them a run feeds.
InitialCapitals == {None, Some(0), Some(100)}
ProfitLosses == {-2, -1, 0, 3, 4, 5}
MaxTrades == 5

Re2Configs ==
    {[SL_check |-> sl, ce_strike |-> 100, pe_strike |-> -100, lot_size |-> 1,
      backtesting_start_date |-> 2, backtesting_end_date |-> 4,
      entry_time |-> Time(9, 15), exit_time |-> Time(15, 29),
      quantity_per_lot |-> 2, missing_data |-> {},
      initial_capital_ce |-> Some(100000), initial_capital_pe |-> Some(100000)] :
        sl \in {None, Some(Percent(20, 20))}}

(***************************************************************************)
(* State: the engine backtesting.main instantiates (ENGINE_MAPPER), the    *)
(* engine object, and the position of process_input in the input sheet.   *)
(***************************************************************************)
VARIABLES
    engine,     \* the --engine argument
    hull,       \* the HullMABackTesting object, None when another engine runs
    re2,        \* the RuleEngine2 object, None when another engine runs
    re3,        \* the RuleEngine3 object, None when another engine runs
    row_index,  \* rows of the input sheet read so far
    clock,      \* the Date/Time column of the row read last
    analysis,   \* a StrategyAnalysis object fed directly, None when an engine runs
    trades,     \* the profit_loss values fed to analysis, in order
    output_excel_file,  \* the ledger save_df_to_excel wrote, None until execute saves
    sheet,      \* the rows process_input has read, each with the series its entry
                \* fetched, kept by the runs that are run again; None otherwise
    expiry_call,    \* a call of get_valid_expiry on a BackTesting object alone: its
                    \* holidays, the expiry passed and the date returned; None otherwise
    price_call,     \* a call of get_historical_price_by_datetime on an engine object
                    \* alone: its arguments and the close returned (None for the
                    \* BackTestingError); None otherwise
    market_hour_call,   \* a call of get_market_hour_datetime on a BackTesting object
                        \* alone: its holidays, the signal time passed and the time
                        \* returned; None otherwise
    soft_call,  \* a call of soft_entry_exit on the pair engine, stepped through its
                \* while loop: the arguments, the loop date and the position in the
                \* loop; None otherwise
    live,       \* the live RuleEngine1 of strategies/rule_engine1.py with its two
                \* files, the signals the channel delivered and the calls of entry()
                \* and exit() made so far; None when a backtesting engine runs
    market      \* the class attributes of FyersMarketData, the position of its
                \* thread in run() and of a caller in subscribe(); None when a
                \* backtesting engine runs

vars ==
    <<engine, hull, re2, re3, row_index, clock, analysis, trades, output_excel_file, sheet,
      expiry_call, price_call, market_hour_call, soft_call, live, market>>

\* The engines of ENGINE_MAPPER; "strategy_analysis" is a run of the analytics alone.
Engines == {"rule_engine1", "rule_engine2", "rule_engine3"}

InitEngine(engines) ==
    /\ engine \in engines
    /\ hull \in IF engine = "rule_engine1"
                THEN {Some(NewHullMABackTesting(c)) : c \in HullConfigs} ELSE {None}
    /\ re2 \in IF engine = "rule_engine2"
               THEN {Some(NewRuleEngine2(c)) : c \in Re2Configs} ELSE {None}
    /\ re3 \in IF engine = "rule_engine3"
               THEN {Some(NewRuleEngine3(c)) : c \in Re3Configs} ELSE {None}
    /\ analysis \in IF engine = "strategy_analysis"
                    THEN {Some([NewStrategyAnalysis EXCEPT !.initial_capital = c]) :
                            c \in InitialCapitals}
                    ELSE {None}
    /\ trades = <<>>
    /\ row_index = 0
    /\ clock = 0
    /\ output_excel_file = None
    /\ sheet = None
    /\ expiry_call = None
    /\ price_call = None
    /\ market_hour_call = None
    /\ soft_call = None
    /\ live = None
    /\ market = None

Init == InitEngine(Engines \cup {"strategy_analysis"})

\* The rows the sheet may hold next: in time order.
NextRows(signals) ==
    {[Signal |-> sg, DateTime |-> dt, Price |-> p, Contracts |-> n] :
        sg \in signals,
        dt \in {x \in SignalTimes : x >= clock},
        p \in SignalPrices,
        n \in 1..MaxLot}

ReadRow(r) ==
    /\ row_index < MaxRows
    /\ row_index' = row_index + 1
    /\ clock' = r.DateTime

\* The sheet with one more row read: the row and the series the database returned for
\* it (none for a row that fetches nothing).
Recorded(r, data) ==
    IF sheet = None THEN None ELSE Some(Append(Val(sheet), [row |-> r, data |-> data]))

\* process_input reads an ET row while no entry is taken.
HullEntrySignal ==
    /\ engine = "rule_engine1" /\ ~Val(hull).raised /\ output_excel_file = None
    /\ \E r \in NextRows({"ET"}) :
        /\ ~HullIsEntryTaken(Val(hull))
        /\ ReadRow(r)
        /\ \E data \in HullDatabase(Val(hull).config,
                                     GetMarketHourDatetime({}, r.DateTime)) :
                /\ hull' = Some(HullProcessEntry(Val(hull), r, data[1], data[2]))
                /\ sheet' = Recorded(r, data)
    /\ UNCHANGED <<engine, re2, re3, analysis, trades, output_excel_file, expiry_call, price_call, market_hour_call, soft_call, live, market>>

\* process_input reads an EX row while an entry is taken.
HullExitSignal ==
    /\ engine = "rule_engine1" /\ ~Val(hull).raised /\ output_excel_file = None
    /\ \E r \in NextRows({"EX"}) :
        /\ HullIsEntryTaken(Val(hull))
        /\ ReadRow(r)
        /\ hull' = Some(HullProcessExit(Val(hull), r))
        /\ sheet' = Recorded(r, <<>>)
    /\ UNCHANGED <<engine, re2, re3, analysis, trades, output_excel_file, expiry_call, price_call, market_hour_call, soft_call, live, market>>

\* A loop that counts a trade for a row that matches neither branch.
HullSkipRowCounts ==
    /\ engine = "rule_engine1" /\ ~Val(hull).raised /\ output_excel_file = None
    /\ \E r \in NextRows({"ET", "EX"}) :
        /\ (r.Signal = "ET") = HullIsEntryTaken(Val(hull))
        /\ ReadRow(r)
        /\ sheet' = Recorded(r, <<>>)
    /\ hull' = Some([Val(hull) EXCEPT !.trade_count = @ + 1])
    /\ UNCHANGED <<engine, re2, re3, analysis, trades, output_excel_file, expiry_call, price_call, market_hour_call, soft_call, live, market>>

\* process_input reads a row that matches neither branch of its loop.
HullSkipRow ==
    /\ engine = "rule_engine1" /\ ~Val(hull).raised /\ output_excel_file = None
    /\ \E r \in NextRows({"ET", "EX"}) :
        /\ (r.Signal = "ET") = HullIsEntryTaken(Val(hull))
        /\ ReadRow(r)
        /\ sheet' = Recorded(r, <<>>)
    /\ UNCHANGED <<engine, hull, re2, re3, analysis, trades, output_excel_file, expiry_call, price_call, market_hour_call, soft_call, live, market>>

\* The ENTRY branch of the loop of RuleEngine3.process_input
Re3ProcessEntry(s, r, current_data, next_data) ==
    LET entry_datetime == GetMarketHourDatetime(s.holidays, r.DateTime)
        current_expiry ==
            GetValidExpiry(s.holidays, GetCurrentWeekExpiry(DateOf(entry_datetime)))
        next_expiry ==
            GetValidExpiry(s.holidays, GetNextWeekExpiry(DateOf(entry_datetime)))
    IN  Re3Entry(s, r.Price, r.Signal, entry_datetime, r.Contracts, current_expiry,
                 next_expiry, current_data, next_data)

\* The EXIT branch of the loop of RuleEngine3.process_input
Re3ProcessExit(s, r) ==
    Re3Exit(s, r.Price, GetMarketHourDatetime(s.holidays, r.DateTime), r.Contracts)

Re3EntrySignal ==
    /\ engine = "rule_engine3" /\ ~Val(re3).raised /\ output_excel_file = None
    /\ \E r \in NextRows({ENTRY_LONG, ENTRY_SHORT}) :
        /\ ~Re3IsEntryTaken(Val(re3))
        /\ ReadRow(r)
        /\ \E next_data \in TrailingData(GetMarketHourDatetime({}, r.DateTime)) :
                re3' = Some(Re3ProcessEntry(Val(re3), r, Series(Flat(5000)), next_data))
        /\ sheet' = Recorded(r, <<>>)
    /\ UNCHANGED <<engine, hull, re2, analysis, trades, output_excel_file, expiry_call, price_call, market_hour_call, soft_call, live, market>>

Re3ExitSignal ==
    /\ engine = "rule_engine3" /\ ~Val(re3).raised /\ output_excel_file = None
    /\ \E r \in NextRows({EXIT_LONG, EXIT_SHORT}) :
        /\ Re3IsEntryTaken(Val(re3))
        /\ ReadRow(r)
        /\ re3' = Some(Re3ProcessExit(Val(re3), r))
        /\ sheet' = Recorded(r, <<>>)
    /\ UNCHANGED <<engine, hull, re2, analysis, trades, output_excel_file, expiry_call, price_call, market_hour_call, soft_call, live, market>>

Re3SkipRow ==
    /\ engine = "rule_engine3" /\ ~Val(re3).raised /\ output_excel_file = None
    /\ \E r \in NextRows({ENTRY_LONG, ENTRY_SHORT, EXIT_LONG, EXIT_SHORT}) :
        /\ (r.Signal \in {ENTRY_LONG, ENTRY_SHORT}) = Re3IsEntryTaken(Val(re3))
        /\ ReadRow(r)
        /\ sheet' = Recorded(r, <<>>)
    /\ UNCHANGED <<engine, hull, re2, re3, analysis, trades, output_excel_file, expiry_call, price_call, market_hour_call, soft_call, live, market>>

\* One day of trade_straddle_strangle.
Re2TradeDay ==
    /\ engine = "rule_engine2" /\ ~Val(re2).raised /\ output_excel_file = None
    /\ Val(re2).current_date <= Val(re2).config.backtesting_end_date
    /\ \E nifty \in {None, Some(17025)},
          moving \in TrailingData(Combine(Val(re2).current_date,
                                          Val(re2).config.entry_time)),
          side \in {"CE", "PE"} :
            LET still == Series(Flat(10000))
            IN  re2' = Some(Re2TradeDate(Val(re2), nifty,
                                         IF side = "CE" THEN moving ELSE still,
                                         IF side = "CE" THEN still ELSE moving))
    /\ UNCHANGED <<engine, hull, re3, row_index, clock, analysis, trades, output_excel_file, sheet, expiry_call, price_call, market_hour_call, soft_call, live, market>>

\* One leg exit reaches the analytics: the "Strategy analysis" block.
AnalysisTrade ==
    /\ engine = "strategy_analysis"
    /\ Len(trades) < MaxTrades
    /\ \E profit_loss \in ProfitLosses :
        /\ analysis' = Some(RecordTrade(Val(analysis), profit_loss))
        /\ trades' = Append(trades, profit_loss)
    /\ UNCHANGED <<engine, hull, re2, re3, row_index, clock, output_excel_file, sheet, expiry_call, price_call, market_hour_call, soft_call, live, market>>

\* A save that runs whether or not the fatal error ended process_input.
HullSaveAlways ==
    /\ engine = "rule_engine1" /\ output_excel_file = None
    /\ output_excel_file' = Some(Val(hull).output_df)
    /\ UNCHANGED <<engine, hull, re2, re3, row_index, clock, analysis, trades, sheet, expiry_call, price_call, market_hour_call, soft_call, live, market>>

\* HullMABackTesting.execute once process_input has returned: the loop read the last
\* row of the sheet without a fatal error and save_df_to_excel writes the ledger.
HullSave ==
    /\ engine = "rule_engine1" /\ ~Val(hull).raised /\ output_excel_file = None
    /\ output_excel_file' = Some(Val(hull).output_df)
    /\ UNCHANGED <<engine, hull, re2, re3, row_index, clock, analysis, trades, sheet, expiry_call, price_call, market_hour_call, soft_call, live, market>>

\* RuleEngine3.execute once process_input has returned.
Re3Save ==
    /\ engine = "rule_engine3" /\ ~Val(re3).raised /\ output_excel_file = None
    /\ output_excel_file' = Some(Val(re3).output_df)
    /\ UNCHANGED <<engine, hull, re2, re3, row_index, clock, analysis, trades, sheet, expiry_call, price_call, market_hour_call, soft_call, live, market>>

\* RuleEngine2.execute once trade_straddle_strangle has returned.
Re2Save ==
    /\ engine = "rule_engine2" /\ ~Val(re2).raised /\ output_excel_file = None
    /\ Val(re2).current_date > Val(re2).config.backtesting_end_date
    /\ output_excel_file' = Some(Val(re2).output_df)
    /\ UNCHANGED <<engine, hull, re2, re3, row_index, clock, analysis, trades, sheet, expiry_call, price_call, market_hour_call, soft_call, live, market>>

\* The dates a call of get_valid_expiry is given, a Monday to the Sunday after it, and
\* the holidays of the object: up to three days, none older than the Wednesday of the
\* week before.
ExpiryDates == 7..13
HolidaySets == {h \in SUBSET (2..13) : Cardinality(h) <= 3}

\* A call of BackTesting.get_valid_expiry.
GetValidExpiryCall ==
    /\ engine = "base_backtesting" /\ expiry_call # None
    /\ \E expiry \in ExpiryDates :
        expiry_call' = Some([Val(expiry_call) EXCEPT
                                !.expiry = Some(expiry),
                                !.returned = Some(GetValidExpiry(Val(expiry_call).holidays,
                                                                expiry))])
    /\ UNCHANGED <<engine, hull, re2, re3, row_index, clock, analysis, trades,
                   output_excel_file, sheet, price_call, market_hour_call, soft_call, live, market>>

\* The series of an object whose prices are looked up: closes that rise by 1.00 a bar
\* from 100.00, without any of the bars of Wednesday and Thursday; and the timestamps
\* looked up, on and off the bars of the two days.
Rising == [t \in BarTimes |-> 10000 + 100 * Cardinality({u \in BarTimes : u < t})]
LookupSeries ==
    {SelectSeq(Series(Rising), LAMBDA x : x.ticker_datetime \notin gap) :
        gap \in SUBSET {t \in BarTimes : DateOf(t) \in {2, 3}}}
PriceCallTimes ==
    {Combine(d, m) : d \in {2, 3},
                     m \in BarMinutes \cup {Time(9, 0), Time(15, 27), Time(15, 30)}}

\* A call of HullMABackTesting.get_historical_price_by_datetime.
GetHistoricalPriceByDatetimeCall ==
    /\ engine = "rule_engine1" /\ price_call # None
    /\ \E option_type \in {"CE", "PE"}, dt \in PriceCallTimes :
        price_call' =
            Some([option_type |-> option_type, dt |-> Some(dt),
                  returned |-> PriceByDatetime(HullHistoricalData(Val(hull), option_type),
                                               dt)])
    /\ UNCHANGED <<engine, hull, re2, re3, row_index, clock, analysis, trades,
                   output_excel_file, sheet, expiry_call,
                   market_hour_call, soft_call, live, market>>

\* The signal times a call of get_market_hour_datetime is given, of a Wednesday and of a
\* Friday, and the holidays of the object.
SignalClockTimes ==
    {Time(0, 0), Time(8, 30), Time(9, 0), Time(9, 14), Time(9, 15), Time(12, 0),
     Time(15, 29), Time(15, 30), Time(15, 59), Time(16, 0), Time(23, 59)}
MarketHourCallTimes == {Combine(d, t) : d \in {2, 4}, t \in SignalClockTimes}
MarketHourHolidaySets == SUBSET {3, 4, 7}

\* A call of BackTesting.get_market_hour_datetime.
GetMarketHourDatetimeCall ==
    /\ engine = "base_backtesting" /\ market_hour_call # None
    /\ \E signal_datetime \in MarketHourCallTimes :
        market_hour_call' =
            Some([Val(market_hour_call) EXCEPT
                    !.signal_datetime = Some(signal_datetime),
                    !.returned =
                        Some(GetMarketHourDatetime(Val(market_hour_call).holidays,
                                                   signal_datetime))])
    /\ UNCHANGED <<engine, hull, re2, re3, row_index, clock, analysis, trades,
                   output_excel_file, sheet, expiry_call, price_call, soft_call, live,
                   market>>

(***************************************************************************)
(* soft_entry_exit stepped through its while loop, and get_next_valid_date *)
(* through its own, on a pair engine that holds a position and a holiday   *)
(* list.                                                                   *)
(***************************************************************************)
\* The days of the database of these runs: a Wednesday to the Thursday of the week
\* after, and a flat series, a CE that falls and a PE that rises from the Tuesday on.
LoopDays == {2, 3, 4, 7, 8, 9, 10}
LoopBarTimeSeq == SortedSeq({Combine(d, m) : d \in LoopDays, m \in BarMinutes})
LoopSeries(base, later) ==
    [i \in 1..Len(LoopBarTimeSeq) |->
        [ticker_datetime |-> LoopBarTimeSeq[i],
         close |-> IF DateOf(LoopBarTimeSeq[i]) >= 8 THEN later ELSE base]]
LoopDatabase ==
    {<<LoopSeries(10000, 10000), LoopSeries(10000, 10000)>>,
     <<LoopSeries(10000, 7000), LoopSeries(10000, 13000)>>}
LoopConfigs ==
    {c \in HullConfigs : c.close_position_day_end /\ c.take_profit_check = None}
\* The holiday lists, the entry signals (a Wednesday and a Friday) and the exit signals.
LoopHolidaySets == {h \in SUBSET {3, 7, 8, 10} : Cardinality(h) <= 2}
LoopEntryTimes == {Combine(2, Time(9, 15)), Combine(4, Time(9, 15))}
LoopExitTimes == {Combine(d, Time(15, 29)) : d \in {3, 4, 7, 8, 9, 11}}

\* A step that leaves the date where it is.
NextExitDateStays(next_exit_date) == next_exit_date

\* get_next_valid_date: "next_exit_date += datetime.timedelta(days=1)"
NextExitDate(next_exit_date) == next_exit_date + 1

\* process_input reads an ET row and then an EX row, and calls soft_entry_exit for it:
\* the assignments ahead of the while loop.
SoftProcessInput ==
    /\ engine = "rule_engine1" /\ soft_call # None /\ Val(soft_call).pc = "process_input"
    /\ \E data \in LoopDatabase, entry_datetime \in LoopEntryTimes,
          exit_datetime \in LoopExitTimes, contracts \in 1..MaxLot, lot_size \in 1..MaxLot :
            LET s == HullProcessEntry(
                        Val(hull),
                        [Signal |-> "ET", DateTime |-> entry_datetime, Price |-> 17025,
                         Contracts |-> contracts],
                        data[1], data[2])
            IN  /\ exit_datetime >= entry_datetime
                /\ hull' = Some(s)
                /\ soft_call' = Some([exit_datetime |-> exit_datetime,
                                      lot_size |-> lot_size,
                                      exit_date |-> DateOf(Val(s.entry_datetime)),
                                      next_exit_date |-> None,
                                      pc |-> "while",
                                      start |-> s])
    /\ UNCHANGED <<engine, re2, re3, row_index, clock, analysis, trades,
                   output_excel_file, sheet, expiry_call, price_call, market_hour_call,
                   live, market>>

\* The head of the while loop of soft_entry_exit and the body down to the test of the
\* two next-day flags: the final exit, or the soft exit of the day.
SoftWhile ==
    /\ engine = "rule_engine1" /\ soft_call # None /\ Val(soft_call).pc = "while"
    /\ LET s == Val(hull)
           c == Val(soft_call)
           final_exit_date == Min2(DateOf(c.exit_datetime), Val(s.active_instrument_expiry))
           s1 == HullExit(s, Combine(c.exit_date, Time(15, 25)), c.lot_size, TRUE)
       IN  IF c.exit_date > final_exit_date
           THEN /\ soft_call' = Some([c EXCEPT !.pc = "return"])
                /\ UNCHANGED hull
           ELSE IF c.exit_date = final_exit_date
           THEN /\ hull' = Some(HullExit(s, c.exit_datetime, c.lot_size, FALSE))
                /\ soft_call' = Some([c EXCEPT !.pc = "return"])
           ELSE /\ hull' = Some(s1)
                /\ soft_call' =
                    Some(IF s1.raised \/ (~s1.trade_pe_next_day /\ ~s1.trade_ce_next_day)
                         THEN [c EXCEPT !.pc = "return"]
                         ELSE [c EXCEPT !.pc = "get_next_valid_date",
                                        !.next_exit_date = Some(c.exit_date)])
    /\ UNCHANGED <<engine, re2, re3, row_index, clock, analysis, trades,
                   output_excel_file, sheet, expiry_call, price_call, market_hour_call,
                   live, market>>

\* One iteration of the while True loop of get_next_valid_date, and the assignment of
\* its result to exit_date when it breaks.
SoftGetNextValidDate ==
    /\ engine = "rule_engine1" /\ soft_call # None
    /\ Val(soft_call).pc = "get_next_valid_date"
    /\ LET c == Val(soft_call)
           next_exit_date == NextExitDate(Val(c.next_exit_date))
       IN  soft_call' =
               Some(IF Weekday(next_exit_date) \in {5, 6}
                       \/ IsHoliday(Val(hull).holidays, next_exit_date)
                    THEN [c EXCEPT !.next_exit_date = Some(next_exit_date)]
                    ELSE [c EXCEPT !.next_exit_date = None,
                                   !.exit_date = next_exit_date,
                                   !.pc = "entry"])
    /\ UNCHANGED <<engine, hull, re2, re3, row_index, clock, analysis, trades,
                   output_excel_file, sheet, expiry_call, price_call, market_hour_call,
                   live, market>>

\* The rest of the body: the soft entry at 09:15 of exit_date and the test of the two
\* instruments.
SoftEntry ==
    /\ engine = "rule_engine1" /\ soft_call # None /\ Val(soft_call).pc = "entry"
    /\ LET s == Val(hull)
           c == Val(soft_call)
           s2 == HullEntry(s, Val(s.entry_strike), Val(s.entry_strike),
                           Combine(c.exit_date, Time(9, 15)), c.lot_size,
                           Val(s.active_instrument_expiry), TRUE,
                           s.ce_historical_data, s.pe_historical_data)
       IN  /\ hull' = Some(s2)
           /\ soft_call' =
                Some(IF s2.raised
                        \/ (s2.CE_ENTRY_INSTRUMENT = None /\ s2.PE_ENTRY_INSTRUMENT = None)
                     THEN [c EXCEPT !.pc = "return"]
                     ELSE [c EXCEPT !.pc = "while"])
    /\ UNCHANGED <<engine, re2, re3, row_index, clock, analysis, trades,
                   output_excel_file, sheet, expiry_call, price_call, market_hour_call,
                   live, market>>

\* A step of the call of soft_entry_exit.
SoftLoopStep == SoftWhile \/ SoftGetNextValidDate \/ SoftEntry

NextSoftLoop == SoftProcessInput \/ SoftLoopStep

(***************************************************************************)
(* fyers/fyers.py: FyersMarketData.  The record holds the class attributes *)
(* and, for the thread that runs run(), the statement it is at and its     *)
(* local list; for a caller inside subscribe(), the list it is about to    *)
(* extend.                                                                 *)
(***************************************************************************)
IndexSymbols == <<"NSE:NIFTY50-INDEX", "NSE:NIFTYBANK-INDEX">>
\* The symbol codes get_fyers_symbol_name resolves the signals to: one strike and one
\* expiry, the CE and the PE.
SymbolCode(option_type) == IF option_type = "CE" THEN "NSE:NIFTY-CE" ELSE "NSE:NIFTY-PE"
OptionSymbols == {SymbolCode("CE"), SymbolCode("PE")}

\* The elements of a list.
Elements(list) == {list[i] : i \in DOMAIN list}

\* The class attributes when the class is loaded, and a thread about to enter run().
\* `requested` keeps the symbols subscribe() has been called with, `calls` how often.
NewFyersMarketData ==
    [symbols_to_subscribe |-> IndexSymbols,
     existing_subscribe_symbol |-> <<>>,
     symbols_to_unsubscribe |-> <<>>,
     market_data |-> {},
     pc |-> "_subscribe",
     symbol |-> <<>>,
     caller |-> None,
     requested |-> {},
     calls |-> 0]

\* "if FyersMarketData.__symbols_to_subscribe:"
SubscribeTest(m) ==
    [m EXCEPT !.pc = IF m.symbols_to_subscribe # <<>> THEN "filter" ELSE "_unsubscribe"]

\* "symbol = [x for x in __symbols_to_subscribe if x not in __existing_subscribe_symbol]"
SubscribeFilter(m) ==
    [m EXCEPT !.symbol = SelectSeq(m.symbols_to_subscribe,
                                   LAMBDA x : x \notin Elements(m.existing_subscribe_symbol)),
              !.pc = "socket"]

\* "if symbol:" with the websocket subscription and the extend of the existing list.
SubscribeSocket(m) ==
    [m EXCEPT !.existing_subscribe_symbol = @ \o m.symbol,
              !.symbol = <<>>,
              !.pc = "clear"]

\* "FyersMarketData.__symbols_to_subscribe = []": the attribute is bound to a new list;
\* a caller that has loaded the old list is left with a list nobody reads.
SubscribeClear(m) ==
    [m EXCEPT !.symbols_to_subscribe = <<>>,
              !.caller = IF @ = None THEN None ELSE Some([Val(@) EXCEPT !.orphan = TRUE]),
              !.pc = "_unsubscribe"]

\* FyersMarketData._unsubscribe
Unsubscribe(m) ==
    LET symbol == SelectSeq(m.symbols_to_unsubscribe,
                            LAMBDA x : x \in Elements(m.existing_subscribe_symbol))
    IN  [m EXCEPT !.existing_subscribe_symbol =
                        IF m.symbols_to_unsubscribe # <<>> /\ symbol # <<>>
                        THEN SelectSeq(@, LAMBDA x : x \notin Elements(symbol))
                        ELSE @,
                  !.symbols_to_unsubscribe = <<>>,
                  !.pc = "_subscribe"]

\* The statement the thread is at, executed.
ThreadStep(m) ==
    IF m.pc = "_subscribe" THEN SubscribeTest(m)
    ELSE IF m.pc = "filter" THEN SubscribeFilter(m)
    ELSE IF m.pc = "socket" THEN SubscribeSocket(m)
    ELSE IF m.pc = "clear" THEN SubscribeClear(m)
    ELSE Unsubscribe(m)

\* One pass of the loop of run(), from the statement the thread is at to the head of
\* the loop, with no other thread in between.
RECURSIVE ThreadPass(_)
ThreadPass(m) ==
    LET n == ThreadStep(m)
    IN  IF n.pc = "_subscribe" THEN n ELSE ThreadPass(n)

\* FyersMarketData.subscribe: the load of the class attribute.
SubscribeLoad(m, symbol) ==
    [m EXCEPT !.caller = Some([symbol |-> symbol, orphan |-> FALSE]),
              !.requested = @ \cup Elements(symbol),
              !.calls = @ + 1]

\* FyersMarketData.subscribe: the extend of the list that was loaded.
SubscribeExtend(m) ==
    [m EXCEPT !.symbols_to_subscribe =
                    IF Val(m.caller).orphan THEN @ ELSE @ \o Val(m.caller).symbol,
              !.caller = None]

\* FyersMarketData.subscribe, with no other thread in between.
FyersSubscribe(m, symbol) == SubscribeExtend(SubscribeLoad(m, symbol))

\* FyersMarketData.get_price
GetPrice(m, symbol) ==
    IF \E d \in m.market_data : d.symbol = symbol
    THEN Some((CHOOSE d \in m.market_data : d.symbol = symbol).ltp)
    ELSE Some(-1)

\* FyersMarketData.add_market_data
AddMarketData(m, data) ==
    [m EXCEPT !.market_data = {d \in @ : d.symbol # data.symbol} \cup {data}]

(***************************************************************************)
(* strategies/rule_engine1.py: the live RuleEngine1.  The functions take   *)
(* and return w, the pair of the strategy object (with its two files) and  *)
(* the FyersMarketData class.  Prices are in paise.                        *)
(***************************************************************************)
CE_PREMIUM == 8000 * 100
SL_PERCENT == 50
QUANTITY == 50

\* The signals the channel delivers: entries of a CE or a PE and exits (action is any
\* of the other ActionType values; exit() does not read option_type).
MaxSignals == 2
LiveSignals ==
    {[action |-> "ET", option_type |-> o, contract_size |-> n] :
        o \in {"CE", "PE"}, n \in 1..MaxLot}
    \cup {[action |-> "SL", option_type |-> "CE", contract_size |-> n] : n \in 1..MaxLot}
\* The ltp get_market_depth returns at an entry, and the ltp of a tick.
LiveLtps == {10000, 20000}
TickLtps == {4000, 16000}
\* The times istnow() returns: a Wednesday in market hours and once the trading session
\* has ended, the Thursday of the expiry before the market opens, in market hours past
\* the expiry time and once the trading session has ended.
LiveTimes ==
    {Combine(2, Time(12, 0)), Combine(2, Time(15, 36)), Combine(3, Time(9, 0)),
     Combine(3, Time(15, 26)), Combine(3, Time(15, 36))}

\* BaseStrategy.is_market_hour
IsMarketHour(dt) == Time(9, 15) < TimeOf(dt) /\ TimeOf(dt) < Time(15, 30)

\* BaseStrategy.is_entry_signal
IsEntrySignal(signal) == signal.action = "ET"

\* BaseStrategy.trading_session_ends
TradingSessionEnds(now) == HourOf(now) = 15 /\ MinuteOf(now) > 35

\* RuleEngine1._expiry_time_reach
ExpiryTimeReach(now) == now >= Combine(GetCurrentWeekExpiry(DateOf(now)), Time(15, 25))

\* RuleEngine1.__init__
NewRuleEngine1(dry_run, clean_up_flag) ==
    [dry_run |-> dry_run,
     clean_up_flag |-> clean_up_flag,
     entry_instrument |-> None,
     entry_instrument_sl |-> None,
     signal |-> None,
     signal_queue |-> <<>>]

\* The call of entry() or exit() that has just returned, added to the calls made: the
\* signal it handled (none for a stop-loss or an expiry exit) and what it left in memory
\* and in the file.
Logged(w, method, flag) ==
    [w EXCEPT !.live.calls =
        Append(@, [method |-> method,
                   flag |-> flag,
                   signal |-> IF flag = "signal" THEN Some(Val(w.live.signal).timestamp)
                              ELSE None,
                   entry_instrument |-> w.live.entry_instrument,
                   entry_instrument_file |-> w.live.entry_instrument_file])]

\* RuleEngine1._get_entry_instrument
GetEntryInstrument(signal, ltp) ==
    [symbol_code |-> SymbolCode(signal.option_type),
     action |-> IF signal.option_type = "CE" THEN "BUY" ELSE "SELL",
     lot_size |-> signal.contract_size,
     option_type |-> signal.option_type,
     entry |-> signal.timestamp,
     price |-> ltp,
     order_id |-> None]

\* RuleEngine1._ce_premium_check
CePremiumCheck(entry_instrument) ==
    ~(entry_instrument.option_type = "CE" /\ entry_instrument.price * QUANTITY > CE_PREMIUM)

\* RuleEngine1.entry without the call added to the log.
LiveEntryBody(w, ltp) ==
    LET s == w.live
        entry_instrument == GetEntryInstrument(Val(s.signal), ltp)
        placed == IF s.dry_run THEN entry_instrument
                  ELSE [entry_instrument EXCEPT !.order_id = Some(Len(s.orders) + 1)]
    IN  IF s.entry_instrument # None THEN w
        ELSE IF ~CePremiumCheck(entry_instrument) THEN w
        ELSE [live |-> [s EXCEPT !.entry_instrument = Some(placed),
                                 !.orders =
                                    IF s.dry_run THEN @
                                    ELSE Append(@, [symbol |-> placed.symbol_code,
                                                    qty |-> placed.lot_size * QUANTITY,
                                                    action |-> placed.action]),
                                 !.entry_instrument_file = Some(placed),
                                 !.entry_instrument_sl = Some(0)],
              market |-> FyersSubscribe(w.market, <<placed.symbol_code>>)]

\* RuleEngine1.entry
LiveEntry(w, ltp) == Logged(LiveEntryBody(w, ltp), "entry", "signal")

\* An exit that writes the file at the entry alone.
LiveExitBodyNoRewrite(w, sl_hit_exit, expiry_exit) ==
    LET s == w.live
        entry_instrument == Val(s.entry_instrument)
        lot_size == IF sl_hit_exit \/ expiry_exit THEN entry_instrument.lot_size
                    ELSE Val(s.signal).contract_size
    IN  IF s.entry_instrument = None THEN w
        ELSE IF entry_instrument.lot_size - lot_size # 0
        THEN [w EXCEPT !.live.entry_instrument =
                            Some([entry_instrument EXCEPT !.lot_size = @ - lot_size])]
        ELSE [w EXCEPT !.live.entry_instrument = None,
                       !.live.entry_instrument_sl = Some(0),
                       !.live.entry_instrument_file = None]

\* RuleEngine1.exit without the call added to the log.
LiveExitBody(w, sl_hit_exit, expiry_exit) ==
    LET s == w.live
        entry_instrument == Val(s.entry_instrument)
        lot_size == IF sl_hit_exit \/ expiry_exit THEN entry_instrument.lot_size
                    ELSE Val(s.signal).contract_size
        left == [entry_instrument EXCEPT !.lot_size = @ - lot_size]
        orders == IF s.dry_run THEN s.orders
                  ELSE Append(s.orders,
                              [symbol |-> entry_instrument.symbol_code,
                               qty |-> lot_size * QUANTITY,
                               action |-> IF entry_instrument.action = "BUY"
                                          THEN "SELL" ELSE "BUY"])
    IN  IF s.entry_instrument = None THEN w
        ELSE IF left.lot_size # 0
        THEN [w EXCEPT !.live.entry_instrument = Some(left),
                       !.live.orders = orders,
                       !.live.entry_instrument_file = Some(left)]
        ELSE [w EXCEPT !.live.entry_instrument = None,
                       !.live.orders = orders,
                       !.live.entry_instrument_sl = Some(0),
                       !.live.entry_instrument_file = None]

\* RuleEngine1.exit
LiveExit(w, sl_hit_exit, expiry_exit) ==
    Logged(LiveExitBody(w, sl_hit_exit, expiry_exit), "exit",
           IF sl_hit_exit THEN "sl_hit" ELSE IF expiry_exit THEN "expiry" ELSE "signal")

\* entry() or exit(), as the action of self._signal says.
LiveHandle(w, ltp) ==
    IF IsEntrySignal(Val(w.live.signal)) THEN LiveEntry(w, ltp)
    ELSE LiveExit(w, FALSE, FALSE)

\* RuleEngine1._process_signal_queue
RECURSIVE ProcessSignalQueue(_, _)
ProcessSignalQueue(w, ltp) ==
    IF w.live.signal_queue = <<>>
    THEN [w EXCEPT !.live.signal_queue_file = None]
    ELSE ProcessSignalQueue(
            LiveHandle([w EXCEPT !.live.signal = Some(Head(w.live.signal_queue)),
                                 !.live.signal_queue = Tail(@)],
                       ltp),
            ltp)

\* RuleEngine1._calculate_entry_instrument_sl
CalculateEntryInstrumentSl(entry_instrument) ==
    IF entry_instrument.option_type = "CE"
    THEN Round2((100 - SL_PERCENT) * entry_instrument.price, 100)
    ELSE Round2((100 + SL_PERCENT) * entry_instrument.price, 100)

\* RuleEngine1._sl_hit: what it returns and what it leaves.
SlHit(w) ==
    LET entry_instrument == Val(w.live.entry_instrument)
        entry_instrument_sl == CalculateEntryInstrumentSl(entry_instrument)
        entry_instrument_ltp == GetPrice(w.market, entry_instrument.symbol_code)
        w1 == [w EXCEPT !.live.entry_instrument_sl = Some(entry_instrument_sl)]
    IN  IF entry_instrument_ltp = None
        THEN [returned |-> FALSE,
              w |-> [w1 EXCEPT !.market =
                                    FyersSubscribe(@, <<entry_instrument.symbol_code>>)]]
        ELSE [returned |->
                \/ entry_instrument.option_type = "CE"
                   /\ Val(entry_instrument_ltp) < entry_instrument_sl
                \/ entry_instrument.option_type = "PE"
                   /\ Val(entry_instrument_ltp) > entry_instrument_sl,
              w |-> w1]

\* execute: the branch of an iteration in market hours that got no signal.
LiveNoSignal(w, now) ==
    LET hit == SlHit(w)
        w1 == IF hit.returned THEN LiveExit(hit.w, TRUE, FALSE) ELSE hit.w
    IN  IF w.live.entry_instrument = None THEN w
        ELSE IF ExpiryTimeReach(now) THEN LiveExit(w1, FALSE, TRUE) ELSE w1

\* execute: an iteration in market hours, after get_tradingview_signal.
LiveMarketHour(w, now, ltp) ==
    LET w1 == IF w.live.signal_queue # <<>> THEN ProcessSignalQueue(w, ltp) ELSE w
    IN  IF w1.live.signal = None THEN LiveNoSignal(w1, now) ELSE LiveHandle(w1, ltp)

\* RuleEngine1.closeup and the return of execute.
LiveCloseup(w) ==
    [w EXCEPT !.live.signal_queue_file =
                    IF w.live.signal_queue # <<>> THEN Some(w.live.signal_queue) ELSE @,
              !.live.running = FALSE]

\* execute: one iteration of the while True loop; message is what
\* get_tradingview_signal got from the channel, now what istnow() returned.
LiveLoopBody(w, message, now, ltp) ==
    LET w0 == [w EXCEPT !.live.signal = message,
                        !.live.now = now,
                        !.live.received =
                            IF message = None THEN @ ELSE Append(@, Val(message))]
        w1 == IF IsMarketHour(now) THEN LiveMarketHour(w0, now, ltp)
              ELSE IF w0.live.signal # None
              THEN [w0 EXCEPT !.live.signal_queue = Append(@, Val(w0.live.signal))]
              ELSE w0
    IN  IF TradingSessionEnds(now) THEN LiveCloseup(w1) ELSE w1

\* The strategy object together with what outlives it: the two files of DATA_DIR, the
\* orders placed, the signals the channel delivered, the calls of entry() and exit()
\* made, the time of the last iteration and whether execute is in its loop.
Machine(object, entry_instrument_file, signal_queue_file, orders, received, calls, now, running) ==
    [dry_run |-> object.dry_run,
     clean_up_flag |-> object.clean_up_flag,
     entry_instrument |-> object.entry_instrument,
     entry_instrument_sl |-> object.entry_instrument_sl,
     signal |-> object.signal,
     signal_queue |-> object.signal_queue,
     entry_instrument_file |-> entry_instrument_file,
     signal_queue_file |-> signal_queue_file,
     orders |-> orders,
     received |-> received,
     calls |-> calls,
     now |-> now,
     running |-> running]

\* The machine before the strategy is started: no file, no order, no signal.
LiveStopped ==
    Machine(NewRuleEngine1(FALSE, FALSE), None, None, <<>>, <<>>, <<>>,
            Combine(2, Time(12, 0)), FALSE)

\* RuleEngine1(dry_run).execute() down to the loop: a new process and a new class
\* FyersMarketData; setup() with clean_up and the reads of the two files.
LiveStart(s, dry_run, clean_up_flag) ==
    LET entry_instrument_file == IF clean_up_flag THEN None ELSE s.entry_instrument_file
        signal_queue_file == IF clean_up_flag THEN None ELSE s.signal_queue_file
        object == [NewRuleEngine1(dry_run, clean_up_flag) EXCEPT
                        !.entry_instrument = entry_instrument_file,
                        !.signal_queue = IF signal_queue_file = None THEN <<>>
                                         ELSE Val(signal_queue_file)]
    IN  [live |-> Machine(object, entry_instrument_file, signal_queue_file, s.orders,
                          s.received, s.calls, s.now, TRUE),
         market |-> IF entry_instrument_file = None THEN NewFyersMarketData
                    ELSE FyersSubscribe(NewFyersMarketData,
                                        <<Val(entry_instrument_file).symbol_code>>)]

\* A signal as get_tradingview_signal returns it: with its timestamp (the signals are
\* told apart by it).
Stamped(signal, timestamp) ==
    [action |-> signal.action, option_type |-> signal.option_type,
     contract_size |-> signal.contract_size, timestamp |-> timestamp]

\* main starts the strategy: RuleEngine1(args.dry_run).execute() down to the loop.
LiveExecute ==
    /\ engine = "live_rule_engine1" /\ ~Val(live).running
    /\ \E dry_run \in BOOLEAN, clean_up_flag \in BOOLEAN :
        LET w == LiveStart(Val(live), dry_run, clean_up_flag)
        IN  /\ live' = Some(w.live)
            /\ market' = Some(w.market)
    /\ UNCHANGED <<engine, hull, re2, re3, row_index, clock, analysis, trades,
                   output_excel_file, sheet, expiry_call, price_call, market_hour_call,
                   soft_call>>

\* One iteration of the while True loop of execute.
LiveIteration ==
    /\ engine = "live_rule_engine1" /\ Val(live).running
    /\ \E message \in {None} \cup
                      {Some(Stamped(x, Len(Val(live).received) + 1)) :
                            x \in IF Len(Val(live).received) < MaxSignals
                                  THEN LiveSignals ELSE {}},
          now \in {t \in LiveTimes : t >= Val(live).now},
          ltp \in LiveLtps :
            LET w == LiveLoopBody([live |-> Val(live), market |-> Val(market)],
                                  message, now, ltp)
            IN  /\ live' = Some(w.live)
                /\ market' = Some(w.market)
    /\ UNCHANGED <<engine, hull, re2, re3, row_index, clock, analysis, trades,
                   output_excel_file, sheet, expiry_call, price_call, market_hour_call,
                   soft_call>>

\* The thread of FyersMarketData goes once round the loop of run() while the strategy
\* is between two iterations.
MarketDataRun ==
    /\ engine = "live_rule_engine1" /\ Val(live).running
    /\ market' = Some(ThreadPass(Val(market)))
    /\ UNCHANGED <<engine, hull, re2, re3, row_index, clock, analysis, trades,
                   output_excel_file, sheet, expiry_call, price_call, market_hour_call,
                   soft_call, live>>

\* The websocket delivers a tick of the symbol of the open position, once subscribed:
\* add_market_data.
WebsocketTick ==
    /\ engine = "live_rule_engine1" /\ Val(live).running
    /\ Val(live).entry_instrument # None
    /\ \E symbol \in {Val(Val(live).entry_instrument).symbol_code}
                        \cap Elements(Val(market).existing_subscribe_symbol),
          ltp \in TickLtps :
            market' = Some(AddMarketData(Val(market), [symbol |-> symbol, ltp |-> ltp]))
    /\ UNCHANGED <<engine, hull, re2, re3, row_index, clock, analysis, trades,
                   output_excel_file, sheet, expiry_call, price_call, market_hour_call,
                   soft_call, live>>

NextLive == LiveExecute \/ LiveIteration \/ MarketDataRun \/ WebsocketTick

\* The strategy thread calls FyersMarketData.subscribe: the class attribute is loaded.
MaxSubscribes == 2
SubscribeCall ==
    /\ engine = "fyers_market_data" /\ Val(market).caller = None
    /\ Val(market).calls < MaxSubscribes
    /\ \E symbol \in OptionSymbols :
        market' = Some(SubscribeLoad(Val(market), <<symbol>>))
    /\ UNCHANGED <<engine, hull, re2, re3, row_index, clock, analysis, trades,
                   output_excel_file, sheet, expiry_call, price_call, market_hour_call,
                   soft_call, live>>

\* The strategy thread, inside subscribe: the extend, and the return.
SubscribeReturn ==
    /\ engine = "fyers_market_data" /\ Val(market).caller # None
    /\ market' = Some(SubscribeExtend(Val(market)))
    /\ UNCHANGED <<engine, hull, re2, re3, row_index, clock, analysis, trades,
                   output_excel_file, sheet, expiry_call, price_call, market_hour_call,
                   soft_call, live>>

\* The thread of FyersMarketData executes the statement it is at.
MarketDataThread ==
    /\ engine = "fyers_market_data"
    /\ market' = Some(ThreadStep(Val(market)))
    /\ UNCHANGED <<engine, hull, re2, re3, row_index, clock, analysis, trades,
                   output_excel_file, sheet, expiry_call, price_call, market_hour_call,
                   soft_call, live>>

NextMarketData == SubscribeCall \/ SubscribeReturn \/ MarketDataThread

NextHull == HullEntrySignal \/ HullExitSignal \/ HullSkipRow

NextRe3 == Re3EntrySignal \/ Re3ExitSignal \/ Re3SkipRow

Next ==
    \/ NextHull
    \/ NextRe3
    \/ Re2TradeDay
    \/ AnalysisTrade
    \/ HullSave
    \/ Re3Save
    \/ Re2Save
    \/ GetValidExpiryCall
    \/ GetHistoricalPriceByDatetimeCall
    \/ GetMarketHourDatetimeCall
    \/ NextSoftLoop
    \/ NextLive
    \/ NextMarketData

\* Every run: any engine, or the analytics alone.
Spec == Init /\ [][Next]_vars

\* The runs of the pair engine.
SpecHull == InitEngine({"rule_engine1"}) /\ [][NextHull]_vars

\* A run of the pair engine under one of the configs.
InitHull(configs) ==
    /\ engine = "rule_engine1"
    /\ hull \in {Some(NewHullMABackTesting(c)) : c \in configs}
    /\ re2 = None /\ re3 = None /\ analysis = None
    /\ trades = <<>>
    /\ row_index = 0
    /\ clock = 0
    /\ output_excel_file = None
    /\ sheet = None
    /\ expiry_call = None
    /\ price_call = None
    /\ market_hour_call = None
    /\ soft_call = None
    /\ live = None
    /\ market = None

\* The runs of the pair engine with a premium check of the long leg.
SpecPremium == InitHull(HullPremiumConfigs) /\ [][NextHull]_vars

\* The runs of the pair engine over a database that lacks bars.
SpecMissing == InitHull(HullMissingConfigs) /\ [][NextHull]_vars

\* The configs of the runs that are run again: stop-loss and take-profit set.
RerunConfigs == {c \in HullConfigs : c.SL_check # None /\ c.take_profit_check # None}
Re3RerunConfigs == {c \in Re3Configs : ~c.trailing_sl}

\* The runs of the two signal engines that keep the sheet they read, up to the saved
\* ledger of the pair engine.
SpecRerun ==
    /\ engine \in {"rule_engine1", "rule_engine3"}
    /\ hull \in IF engine = "rule_engine1"
                THEN {Some(NewHullMABackTesting(c)) : c \in RerunConfigs} ELSE {None}
    /\ re3 \in IF engine = "rule_engine3"
               THEN {Some(NewRuleEngine3(c)) : c \in Re3RerunConfigs} ELSE {None}
    /\ re2 = None /\ analysis = None
    /\ trades = <<>> /\ row_index = 0 /\ clock = 0
    /\ output_excel_file = None
    /\ sheet = Some(<<>>)
    /\ expiry_call = None
    /\ price_call = None
    /\ market_hour_call = None
    /\ soft_call = None
    /\ live = None
    /\ market = None
    /\ [][NextHull \/ NextRe3 \/ HullSave]_vars

\* The runs of the pair engine under the stop-loss configs, the sheet kept.
SpecStopLoss ==
    /\ engine = "rule_engine1"
    /\ hull \in {Some(NewHullMABackTesting(c)) : c \in HullStopConfigs}
    /\ re2 = None /\ re3 = None /\ analysis = None
    /\ trades = <<>> /\ row_index = 0 /\ clock = 0
    /\ output_excel_file = None
    /\ sheet = Some(<<>>)
    /\ expiry_call = None
    /\ price_call = None
    /\ market_hour_call = None
    /\ soft_call = None
    /\ live = None
    /\ market = None
    /\ [][NextHull]_vars

\* The calls of get_valid_expiry on a BackTesting object, whatever its holidays.
SpecExpiry ==
    /\ engine = "base_backtesting"
    /\ hull = None /\ re2 = None /\ re3 = None /\ analysis = None
    /\ trades = <<>> /\ row_index = 0 /\ clock = 0
    /\ output_excel_file = None
    /\ sheet = None
    /\ expiry_call \in {Some([holidays |-> h, expiry |-> None, returned |-> None]) :
                            h \in HolidaySets}
    /\ price_call = None
    /\ market_hour_call = None
    /\ soft_call = None
    /\ live = None
    /\ market = None
    /\ [][GetValidExpiryCall]_vars

\* The calls of soft_entry_exit: a pair engine with a holiday list, before process_input
\* reads its sheet.
InitSoftLoop ==
    /\ engine = "rule_engine1"
    /\ hull \in {Some([NewHullMABackTesting(config) EXCEPT !.holidays = holidays]) :
                    config \in LoopConfigs, holidays \in LoopHolidaySets}
    /\ soft_call = Some([exit_datetime |-> 0, lot_size |-> 0, exit_date |-> 0,
                         next_exit_date |-> None, pc |-> "process_input",
                         start |-> Val(hull)])
    /\ re2 = None /\ re3 = None /\ analysis = None
    /\ trades = <<>> /\ row_index = 0 /\ clock = 0
    /\ output_excel_file = None
    /\ sheet = None
    /\ expiry_call = None
    /\ price_call = None
    /\ market_hour_call = None
    /\ live = None
    /\ market = None

SpecSoftLoop == InitSoftLoop /\ [][NextSoftLoop]_vars

\* The interpreter keeps running a call that was made: a step of it that is possible is
\* taken, WF_vars(SoftLoopStep).  The weak fairness of SoftWhile and of SoftEntry is
\* written with the test of pc their ENABLED amounts to (both change pc whenever pc lets
\* them run).
SpecSoftLoopFair ==
    /\ SpecSoftLoop
    /\ WF_vars(SoftGetNextValidDate)
    /\ \/ []<>(Val(soft_call).pc \notin {"while", "entry"})
       \/ []<><<SoftWhile \/ SoftEntry>>_vars

\* The backtesting variables of the runs of the class FyersMarketData.
NoBacktesting ==
    /\ hull = None /\ re2 = None /\ re3 = None /\ analysis = None
    /\ trades = <<>> /\ row_index = 0 /\ clock = 0
    /\ output_excel_file = None
    /\ sheet = None
    /\ expiry_call = None
    /\ price_call = None
    /\ market_hour_call = None
    /\ soft_call = None

\* The live strategy, started day after day, with the thread of FyersMarketData run
\* between its iterations.
SpecLive ==
    /\ engine = "live_rule_engine1"
    /\ live = Some(LiveStopped)
    /\ market = Some(NewFyersMarketData)
    /\ hull = None /\ re2 = None /\ re3 = None /\ analysis = None
    /\ trades = <<>> /\ row_index = 0 /\ clock = 0
    /\ output_excel_file = None
    /\ sheet = None
    /\ expiry_call = None
    /\ price_call = None
    /\ market_hour_call = None
    /\ soft_call = None
    /\ [][NextLive]_vars

\* The class FyersMarketData alone: its thread, statement by statement, and a strategy
\* thread that calls subscribe.
InitMarketData ==
    /\ engine = "fyers_market_data"
    /\ live = None
    /\ market = Some(NewFyersMarketData)
    /\ NoBacktesting

SpecMarketData == InitMarketData /\ [][NextMarketData]_vars

\* Both threads keep running: the statement a thread is at is executed.
SpecMarketDataFair ==
    SpecMarketData /\ WF_vars(MarketDataThread) /\ WF_vars(SubscribeReturn)

\* The calls of get_market_hour_datetime on a BackTesting object, whatever its holidays.
SpecMarketHour ==
    /\ engine = "base_backtesting"
    /\ hull = None /\ re2 = None /\ re3 = None /\ analysis = None
    /\ trades = <<>> /\ row_index = 0 /\ clock = 0
    /\ output_excel_file = None
    /\ sheet = None
    /\ expiry_call = None
    /\ price_call = None
    /\ market_hour_call \in {Some([holidays |-> h, signal_datetime |-> None,
                                    returned |-> None]) : h \in MarketHourHolidaySets}
    /\ soft_call = None
    /\ live = None
    /\ market = None
    /\ [][GetMarketHourDatetimeCall]_vars

\* The calls of get_historical_price_by_datetime on a pair engine whose CE series lacks
\* bars.
SpecLookup ==
    /\ engine = "rule_engine1"
    /\ hull \in {Some([NewHullMABackTesting(c) EXCEPT
                            !.ce_historical_data = ce,
                            !.pe_historical_data = Series(Flat(10000))]) :
                    c \in {h \in HullConfigs : h.SL_check = None
                                                /\ h.take_profit_check = None
                                                /\ ~h.close_position_day_end},
                    ce \in LookupSeries}
    /\ re2 = None /\ re3 = None /\ analysis = None
    /\ trades = <<>> /\ row_index = 0 /\ clock = 0
    /\ output_excel_file = None
    /\ sheet = None
    /\ expiry_call = None
    /\ price_call = Some([option_type |-> "CE", dt |-> None, returned |-> None])
    /\ market_hour_call = None
    /\ soft_call = None
    /\ live = None
    /\ market = None
    /\ [][GetHistoricalPriceByDatetimeCall]_vars

\* The runs of the calendar spread engine.
SpecRe3 == InitEngine({"rule_engine3"}) /\ [][NextRe3]_vars

\* The runs of the two engines that take their exits from the input sheet.
SpecSignals ==
    InitEngine({"rule_engine1", "rule_engine3"}) /\ [][NextHull \/ NextRe3]_vars

\* The runs of the two engines whose short legs trail their stop-loss.
SpecTrailing ==
    InitEngine({"rule_engine2", "rule_engine3"}) /\ [][NextRe3 \/ Re2TradeDay]_vars

\* The runs of execute() up to the saved ledger: the pair engine over a database that
\* lacks bars, without stop-loss and take-profit, and the calendar spread engine.
SpecExecute ==
    /\ \/ InitHull({c \in HullMissingConfigs :
                        c.SL_check = None /\ c.take_profit_check = None})
       \/ InitEngine({"rule_engine3"})
    /\ [][NextHull \/ NextRe3 \/ HullSave \/ Re3Save]_vars

\* The runs of the analytics alone.
SpecAnalysis == InitEngine({"strategy_analysis"}) /\ [][AnalysisTrade]_vars

(***************************************************************************)
(* The properties.  What a property says of a price series it says in the  *)
(* words of the exit-condition evaluator: the bars strictly between two    *)
(* datetimes, the stop-loss and take-profit price of a leg, the bars that  *)
(* meet a condition.                                                       *)
(***************************************************************************)
LastRow(df) == df[Len(df)]

\* bars_between: the bars with start < timestamp < end
BarsBetween(series, start, end) ==
    {i \in 1..Len(series) :
        start < series[i].ticker_datetime /\ series[i].ticker_datetime < end}

\* Stop-loss price of a leg: below the entry price of the long CE, above the entry price
\* of the short PE, rounded to 2 decimals.
LegStopPrice(option_type, entry_price, percent) ==
    IF option_type = "CE" THEN Round2(entry_price * (100 - percent), 100)
    ELSE Round2(entry_price * (100 + percent), 100)

\* Take-profit price of a leg: above the entry price of the long CE, below the entry
\* price of the short PE.
LegTargetPrice(option_type, entry_price, percent) ==
    IF option_type = "CE" THEN Round2(entry_price * (100 + percent), 100)
    ELSE Round2(entry_price * (100 - percent), 100)

\* The bars before end at which a leg of the pair engine meets its stop-loss condition.
HullStopBars(h, leg, end) ==
    LET series == HullHistoricalData(h, leg.option_type)
        stop == LegStopPrice(leg.option_type, leg.price,
                             Val(h.config.SL_check)[leg.option_type])
    IN  IF h.config.SL_check = None THEN {}
        ELSE {i \in BarsBetween(series, leg.entry, end) :
                IF leg.option_type = "CE" THEN series[i].close < stop
                ELSE series[i].close > stop}

\* The bars before end at which a leg of the pair engine meets its take-profit condition.
HullTargetBars(h, leg, end) ==
    LET series == HullHistoricalData(h, leg.option_type)
        target == LegTargetPrice(leg.option_type, leg.price,
                                 Val(h.config.take_profit_check)[leg.option_type])
    IN  IF h.config.take_profit_check = None THEN {}
        ELSE {i \in BarsBetween(series, leg.entry, end) :
                IF leg.option_type = "CE" THEN series[i].close >= target
                ELSE series[i].close <= target}

\* The stop-loss price of a short leg in force at bar i: the stored price, lowered when
\* the stop-loss trails by the candidates of the bars up to and including i.
ShortStopPriceAt(series, bars, i, stored, percent, trailing) ==
    IF trailing
    THEN Min({stored} \cup {Round2(series[j].close * (100 + percent), 100) :
                                j \in {k \in bars : k <= i}})
    ELSE stored

\* The bars before end at which the sell leg of a calendar meets its stop-loss condition.
Re3StopBars(s, calendar, end) ==
    LET sell == calendar.next_week_instrument
        series == s.historical_data[sell.expiry]
        bars == BarsBetween(series, sell.entry, end)
    IN  IF s.config.SL_check = None THEN {}
        ELSE {i \in bars :
                series[i].close >
                    ShortStopPriceAt(series, bars, i, Val(sell.sl_price),
                                     Val(s.config.SL_check)[sell.option_type],
                                     s.config.trailing_sl)}

\* The columns of one leg in a row of the pair engine's ledger.
LegSlot(h, option_type) ==
    IF option_type = "CE" THEN h.CE_ENTRY_INSTRUMENT ELSE h.PE_ENTRY_INSTRUMENT
LegType(r, option_type) ==
    IF option_type = "CE" THEN r.CEEntryExitType ELSE r.PEEntryExitType
LegTime(r, option_type) ==
    IF option_type = "CE" THEN r.CEEntryExitTime ELSE r.PEEntryExitTime
LegPrice(r, option_type) == IF option_type = "CE" THEN r.CEBuy ELSE r.PESell

\* The calendar that is open, and the columns of a row of the calendar engine's ledger.
Re3ActiveCalendar(s) ==
    IF s.CE_CALENDAR # None THEN Val(s.CE_CALENDAR) ELSE Val(s.PE_CALENDAR)
Re3RowTime(r) ==
    IF r.PEEntryExitTime # None THEN Val(r.PEEntryExitTime) ELSE Val(r.CEEntryExitTime)
Re3RowSellPrice(r) ==
    IF r.PEForwardWeekPrice # None THEN Val(r.PEForwardWeekPrice)
    ELSE Val(r.CEForwardWeekPrice)
Re3IsExitRow(r) == r.EntryExitType \notin {ENTRY_LONG, ENTRY_SHORT}

\* The nominal exit time of the row that a step reads.
NominalExit == GetMarketHourDatetime({}, clock')

\* A step of the pair engine that is one ordinary call of exit(): an EX row read while a
\* position is open, with no day-end rollover between the entry and the exit.
HullOrdinaryExit ==
    /\ engine = "rule_engine1"
    /\ HullIsEntryTaken(Val(hull))
    /\ Len(Val(hull').output_df) = Len(Val(hull).output_df) + 1
    /\ \/ ~Val(hull).config.close_position_day_end
       \/ DateOf(Val(Val(hull).entry_datetime))
            >= Min2(DateOf(NominalExit), Val(Val(hull).active_instrument_expiry))

\* A step of the calendar engine that is one call of exit().
Re3ExitStep ==
    /\ engine = "rule_engine3"
    /\ Re3IsEntryTaken(Val(re3))
    /\ Len(Val(re3').output_df) = Len(Val(re3).output_df) + 1

(***************************************************************************)
(* C1                                                                      *)
(***************************************************************************)
C1_PairLeg(option_type) ==
    LET h == Val(hull)
        leg == Val(LegSlot(h, option_type))
        series == HullHistoricalData(h, option_type)
        past == DateOf(NominalExit) > leg.expiry
        capped == IF past THEN Combine(leg.expiry, Time(15, 29)) ELSE NominalExit
        stops == HullStopBars(h, leg, capped)
        targets == HullTargetBars(h, leg, capped)
        r == LastRow(Val(hull').output_df)
    IN  IF stops \cup targets # {}
        THEN \E i \in stops \cup targets :
                /\ LegTime(r, option_type) = series[i].ticker_datetime
                /\ LegPrice(r, option_type) = series[i].close
                /\ LegType(r, option_type) =
                        IF i \in stops THEN SL_EXIT ELSE TAKE_PROFIT_EXIT
        ELSE IF past
        THEN /\ LegType(r, option_type) = EXPIRY_EXIT
             /\ DateOf(LegTime(r, option_type)) = leg.expiry
        ELSE /\ LegType(r, option_type) = EXIT_SIGNAL
             /\ LegTime(r, option_type) = NominalExit

C1_Calendar ==
    LET s == Val(re3)
        calendar == Re3ActiveCalendar(s)
        sell == calendar.next_week_instrument
        series == s.historical_data[sell.expiry]
        expiry == calendar.current_week_instrument.expiry
        past == DateOf(NominalExit) > expiry
        capped == IF past THEN Combine(expiry, Time(15, 25)) ELSE NominalExit
        stops == Re3StopBars(s, calendar, capped)
        r == LastRow(Val(re3').output_df)
    IN  IF stops # {}
        THEN /\ r.EntryExitType = SL_EXIT
             /\ \E i \in stops :
                    /\ Re3RowTime(r) = series[i].ticker_datetime
                    /\ Re3RowSellPrice(r) = series[i].close
        ELSE IF past
        THEN r.EntryExitType = EXPIRY_EXIT /\ DateOf(Re3RowTime(r)) = expiry
        ELSE r.EntryExitType = EXIT_SIGNAL /\ Re3RowTime(r) = NominalExit

\* C1: an ordinary exit() settles each open leg by priority.  If a bar strictly after the
\* leg's entry and strictly before the expiry-capped nominal exit time meets the stop-loss
\* or the take-profit condition, the leg's exit is SL_EXIT or TAKE_PROFIT_EXIT at the
\* timestamp and close of such a bar; otherwise, if the nominal exit date is after the
\* expiry, it is EXPIRY_EXIT on the expiry date; otherwise it is EXIT_SIGNAL at the nominal
\* time.  Pair engine and calendar engine.
C1_ExitPriority ==
    [][/\ HullOrdinaryExit =>
            \A option_type \in {"CE", "PE"} :
                LegSlot(Val(hull), option_type) # None => C1_PairLeg(option_type)
       /\ Re3ExitStep => C1_Calendar]_vars

\* A row of the pair engine where the short leg left by its stop-loss and the long leg,
\* with no bar meeting a condition, was pinned to the expiry.
C1_Witness ==
    /\ engine = "rule_engine1"
    /\ ~Val(hull).config.close_position_day_end
    /\ \E k \in 1..Len(Val(hull).output_df) :
        /\ Val(hull).output_df[k].PEEntryExitType = SL_EXIT
        /\ Val(hull).output_df[k].CEEntryExitType = EXPIRY_EXIT

(***************************************************************************)
(* C2                                                                      *)
(***************************************************************************)
\* The legs that are present, of whichever engine runs.
OpenLegs ==
    IF engine = "rule_engine1"
    THEN {Val(x) : x \in {Val(hull).CE_ENTRY_INSTRUMENT, Val(hull).PE_ENTRY_INSTRUMENT}
                            \ {None}}
    ELSE IF engine = "rule_engine3"
    THEN UNION {{Val(c).current_week_instrument, Val(c).next_week_instrument} :
                    c \in {Val(re3).CE_CALENDAR, Val(re3).PE_CALENDAR} \ {None}}
    ELSE {}

\* C2: after any sequence of entry and exit signals with any lot sizes, every leg's
\* remaining lot size is >= 0 and a leg whose remaining lot size is 0 is absent: every
\* leg that is present holds a lot size above 0, also after an exit signal whose lot size
\* is larger than what remains.
C2_RemainingLotSize == \A leg \in OpenLegs : leg.lot_size > 0

(***************************************************************************)
(* C3                                                                      *)
(***************************************************************************)
\* The row of the signal entry that row k of the pair engine's ledger belongs to.
TrueEntryRow(df, k) ==
    df[CHOOSE j \in 1..k :
        /\ df[j].PEEntryExitType = ENTRY_SIGNAL
        /\ \A i \in (j + 1)..k : df[i].PEEntryExitType # ENTRY_SIGNAL]

\* C3: in close-position-at-day-end mode the stop-loss price a leg is tested against is
\* the one computed from the entry price of the signal entry, also after a soft re-entry:
\* every SL_EXIT of the ledger is at a close beyond the stop-loss price of the signal
\* entry.
C3_StopLossAnchor ==
    (engine = "rule_engine1" /\ Val(hull).config.close_position_day_end
        /\ Val(hull).config.SL_check # None) =>
    LET df == Val(hull).output_df
        percent == Val(Val(hull).config.SL_check)
    IN  \A k \in 1..Len(df) :
            /\ df[k].CEEntryExitType = SL_EXIT =>
                    df[k].CEBuy < LegStopPrice("CE", TrueEntryRow(df, k).CEBuy, percent.CE)
            /\ df[k].PEEntryExitType = SL_EXIT =>
                    df[k].PESell > LegStopPrice("PE", TrueEntryRow(df, k).PESell,
                                                percent.PE)

(***************************************************************************)
(* C4                                                                      *)
(***************************************************************************)
\* C4: fed the profit and loss sequence +5, +3, -2, -1, +4 one leg exit at a time, the
\* streak tracker holds consecutive_win = 2, consecutive_loss = 2 and a running win
\* counter of 1.
C4_StreakExample ==
    (engine = "strategy_analysis" /\ trades = <<5, 3, -2, -1, 4>>) =>
    LET c == Val(analysis).consecutive_win_loss
    IN  /\ c.consecutive_win = 2
        /\ c.consecutive_loss = 2
        /\ c.temp_consecutive_win = 1

(***************************************************************************)
(* C5                                                                      *)
(***************************************************************************)
C5_PairLeg(option_type) ==
    LET h == Val(hull)
        leg == Val(LegSlot(h, option_type))
        series == HullHistoricalData(h, option_type)
        capped == IF DateOf(NominalExit) > leg.expiry
                  THEN Combine(leg.expiry, Time(15, 29)) ELSE NominalExit
        stops == HullStopBars(h, leg, capped)
        r == LastRow(Val(hull').output_df)
    IN  /\ stops # {} =>
            /\ LegType(r, option_type) = SL_EXIT
            /\ LegTime(r, option_type) = series[Min(stops)].ticker_datetime
            /\ LegPrice(r, option_type) = series[Min(stops)].close
        /\ LegType(r, option_type) = TAKE_PROFIT_EXIT => stops = {}

\* C5: with stop-loss and take-profit both configured, a leg one bar of whose scanned
\* range meets the stop-loss condition exits as SL_EXIT at the first such bar, whether or
\* not a bar meeting the take-profit condition comes earlier; TAKE_PROFIT_EXIT is recorded
\* only when no bar of the range meets the stop-loss condition.
C5_StopLossFirst ==
    [][(/\ HullOrdinaryExit
        /\ Val(hull).config.SL_check # None
        /\ Val(hull).config.take_profit_check # None) =>
            \A option_type \in {"CE", "PE"} :
                LegSlot(Val(hull), option_type) # None => C5_PairLeg(option_type)]_vars

\* An entry row followed by the exit row of a short leg stopped out at a bar that comes
\* after a bar at or below its take-profit price.
C5_Witness ==
    /\ engine = "rule_engine1"
    /\ Val(hull).config.SL_check # None
    /\ Val(hull).config.take_profit_check # None
    /\ ~Val(hull).config.close_position_day_end
    /\ LET df == Val(hull).output_df
           series == Val(hull).pe_historical_data
       IN  \E k \in 2..Len(df) :
            /\ df[k - 1].PEEntryExitType = ENTRY_SIGNAL
            /\ df[k].PEEntryExitType = SL_EXIT
            /\ \E i \in BarsBetween(series, df[k - 1].PEEntryExitTime,
                                    df[k].PEEntryExitTime) :
                    series[i].close <=
                        LegTargetPrice("PE", df[k - 1].PESell,
                                       Val(Val(hull).config.take_profit_check).PE)

(***************************************************************************)
(* C6                                                                      *)
(***************************************************************************)
C6_PairLeg(option_type) ==
    LET h == Val(hull)
        leg == Val(LegSlot(h, option_type))
        series == HullHistoricalData(h, option_type)
        capped == IF DateOf(NominalExit) > leg.expiry
                  THEN Combine(leg.expiry, Time(15, 29)) ELSE NominalExit
        stops == HullStopBars(h, leg, capped)
        targets == HullTargetBars(h, leg, capped)
        r == LastRow(Val(hull').output_df)
    IN  stops \cup targets # {} =>
            LET earliest == Min(stops \cup targets)
            IN  /\ LegTime(r, option_type) = series[earliest].ticker_datetime
                /\ LegType(r, option_type) =
                        IF earliest \in stops THEN SL_EXIT ELSE TAKE_PROFIT_EXIT

\* C6: with stop-loss and take-profit both configured, the exit of a leg is recorded at
\* the earliest bar of the scanned range at which either condition is met, with the exit
\* type of the condition met at that bar.
C6_EarliestBarWins ==
    [][(/\ HullOrdinaryExit
        /\ Val(hull).config.SL_check # None
        /\ Val(hull).config.take_profit_check # None) =>
            \A option_type \in {"CE", "PE"} :
                LegSlot(Val(hull), option_type) # None => C6_PairLeg(option_type)]_vars

(***************************************************************************)
(* C7                                                                      *)
(***************************************************************************)
\* An exit after the expiry at which no stop-loss and no take-profit fired is recorded as
\* EXPIRY_EXIT on the expiry date at the time pair_time in the pair engine and at the time
\* calendar_time in the calendar engine.
ExpiryExitAt(pair_time, calendar_time) ==
    /\ HullOrdinaryExit =>
        \A option_type \in {"CE", "PE"} :
            LET slot == LegSlot(Val(hull), option_type)
                r == LastRow(Val(hull').output_df)
            IN  (/\ slot # None
                 /\ DateOf(NominalExit) > Val(slot).expiry
                 /\ LegType(r, option_type) \notin {SL_EXIT, TAKE_PROFIT_EXIT}) =>
                    /\ LegType(r, option_type) = EXPIRY_EXIT
                    /\ LegTime(r, option_type) = Combine(Val(slot).expiry, pair_time)
    /\ Re3ExitStep =>
        LET expiry == Re3ActiveCalendar(Val(re3)).current_week_instrument.expiry
            r == LastRow(Val(re3').output_df)
        IN  (DateOf(NominalExit) > expiry /\ r.EntryExitType # SL_EXIT) =>
                /\ r.EntryExitType = EXPIRY_EXIT
                /\ Re3RowTime(r) = Combine(expiry, calendar_time)

\* C7 as stated: for every exit whose nominal exit date is after the position's expiry,
\* with no stop-loss or take-profit fired, the pair engine and the calendar engine both
\* record EXPIRY_EXIT with the timestamp of the expiry date at 15:29.
C7_ExpiryAt1529 == [][ExpiryExitAt(Time(15, 29), Time(15, 29))]_vars

\* C7 as amended: for every such exit both engines record EXPIRY_EXIT on the expiry date,
\* the pair engine at 15:29 and the calendar engine at 15:25.
C7_ExpiryPinned == [][ExpiryExitAt(Time(15, 29), Time(15, 25))]_vars

\* A calendar closed by an EXPIRY_EXIT row after an entry on or before its expiry.
C7_Witness ==
    /\ engine = "rule_engine3"
    /\ \E k \in 1..Len(Val(re3).output_df) :
        LET r == Val(re3).output_df[k]
        IN  r.EntryExitType = EXPIRY_EXIT /\ DateOf(Re3RowTime(r)) = r.Expiry

(***************************************************************************)
(* C8                                                                      *)
(***************************************************************************)
\* C8: an ordinary exit with no stop-loss and no take-profit configured and the exit date
\* on or before the expiry is recorded as EXIT_SIGNAL at the nominal exit timestamp, for
\* both legs.  Pair engine and calendar engine.
C8_SignalExit ==
    [][/\ (/\ HullOrdinaryExit
           /\ Val(hull).config.SL_check = None
           /\ Val(hull).config.take_profit_check = None) =>
            \A option_type \in {"CE", "PE"} :
                LET slot == LegSlot(Val(hull), option_type)
                    r == LastRow(Val(hull').output_df)
                IN  (slot # None /\ DateOf(NominalExit) <= Val(slot).expiry) =>
                        /\ LegType(r, option_type) = EXIT_SIGNAL
                        /\ LegTime(r, option_type) = NominalExit
       /\ (Re3ExitStep /\ Val(re3).config.SL_check = None) =>
            LET expiry == Re3ActiveCalendar(Val(re3)).current_week_instrument.expiry
                r == LastRow(Val(re3').output_df)
            IN  DateOf(NominalExit) <= expiry =>
                    /\ r.EntryExitType = EXIT_SIGNAL
                    /\ Re3RowTime(r) = NominalExit]_vars

\* Both legs of the pair engine left by the exit signal at the close of the expiry day.
C8_Witness ==
    /\ engine = "rule_engine1"
    /\ Val(hull).config.SL_check = None
    /\ Val(hull).config.take_profit_check = None
    /\ \E k \in 1..Len(Val(hull).output_df) :
        LET r == Val(hull).output_df[k]
        IN  /\ r.CEEntryExitType = EXIT_SIGNAL
            /\ r.PEEntryExitType = EXIT_SIGNAL
            /\ r.CEEntryExitTime = Combine(r.Expiry, Time(15, 29))
            /\ r.PEEntryExitTime = Combine(r.Expiry, Time(15, 29))

(***************************************************************************)
(* C9                                                                      *)
(***************************************************************************)
\* The lots that the exit rows of the position of row k took out up to row k, and the
\* lots that its entry row brought in.
RECURSIVE LotsExitedUpTo(_, _, _)
LotsExitedUpTo(df, trade, i) ==
    IF i = 0 THEN 0
    ELSE LotsExitedUpTo(df, trade, i - 1)
            + (IF df[i].Trade = trade /\ Re3IsExitRow(df[i]) THEN df[i].LotSize ELSE 0)
LotsExited(df, k) == LotsExitedUpTo(df, df[k].Trade, k)
LotsEntered(df, k) ==
    df[CHOOSE i \in 1..k : df[i].Trade = df[k].Trade /\ ~Re3IsExitRow(df[i])].LotSize

\* C9: for one calendar evaluated by several successive exits, a bar that did not trigger
\* the stop-loss in an earlier evaluation does not trigger it in a later one: no SL_EXIT
\* row of a position carries a timestamp earlier than an earlier exit row of that
\* position (partial exits: the exits take out no more lots than the entry brought in).
C9_ConsistentWithHistory ==
    engine = "rule_engine3" =>
    LET df == Val(re3).output_df
    IN  \A j, k \in 1..Len(df) :
            (/\ j < k
             /\ df[j].Trade = df[k].Trade
             /\ Re3IsExitRow(df[j])
             /\ df[k].EntryExitType = SL_EXIT
             /\ LotsExited(df, k) <= LotsEntered(df, k)) =>
                Re3RowTime(df[j]) <= Re3RowTime(df[k])

(***************************************************************************)
(* C10                                                                     *)
(***************************************************************************)
\* The stored stop-loss price over the bars that the scans of one position visited: it
\* never goes up, and it goes down only to the candidate of the bar, close x (100 +
\* percent) / 100.
NeverIncreases(updates, percents) ==
    \A i \in 1..Len(updates) :
        /\ updates[i].after <= updates[i].before
        /\ updates[i].after # updates[i].before =>
                \E percent \in percents :
                    updates[i].after = Round2(updates[i].close * (100 + percent), 100)
        /\ i > 1 => updates[i].before = updates[i - 1].after

\* C10: the stored stop-loss price of a short leg that trails never increases: over the
\* bars scanned and over the exit evaluations, an update replaces it only by a strictly
\* lower candidate.  Straddle engine (both legs) and calendar engine (sell leg).
C10_StopLossNeverIncreases ==
    /\ (engine = "rule_engine3" /\ Val(re3).config.trailing_sl
            /\ Val(re3).config.SL_check # None) =>
        /\ NeverIncreases(Val(re3).sl_updates,
                          {Val(Val(re3).config.SL_check).CE,
                           Val(Val(re3).config.SL_check).PE})
        /\ (Re3IsEntryTaken(Val(re3)) /\ Val(re3).sl_updates # <<>>) =>
                Val(Re3ActiveCalendar(Val(re3)).next_week_instrument.sl_price)
                    = LastRow(Val(re3).sl_updates).after
    /\ (engine = "rule_engine2" /\ Val(re2).config.SL_check # None) =>
        /\ NeverIncreases(Val(re2).sl_updates.CE, {Val(Val(re2).config.SL_check).CE})
        /\ NeverIncreases(Val(re2).sl_updates.PE, {Val(Val(re2).config.SL_check).PE})

\* A calendar whose stored stop-loss price a bar lowered and a later bar, with a higher
\* candidate, left alone.
C10_Witness ==
    /\ engine = "rule_engine3"
    /\ Val(re3).config.trailing_sl
    /\ \E i, j \in 1..Len(Val(re3).sl_updates) :
        LET u == Val(re3).sl_updates[i]
            v == Val(re3).sl_updates[j]
        IN  /\ i < j
            /\ u.after < u.before
            /\ v.after = v.before
            /\ Round2(v.close * (100 + Val(Val(re3).config.SL_check).PE), 100) > v.before

(***************************************************************************)
(* C11                                                                     *)
(***************************************************************************)
\* The bars, among bars, at which a trailing short leg fires: the close is above the
\* minimum of the initial stop-loss price and the candidates of the bars up to and
\* including the bar.
TrailFireBars(series, bars, initial, percent) ==
    {i \in bars : series[i].close > ShortStopPriceAt(series, bars, i, initial, percent, TRUE)}

\* The exit recorded for a short leg against the bars at which it fires.
FiresAtFirst(series, fires, exit_type, exit_time, exit_price) ==
    IF fires # {}
    THEN /\ exit_type = SL_EXIT
         /\ exit_time = series[Min(fires)].ticker_datetime
         /\ exit_price = series[Min(fires)].close
    ELSE exit_type # SL_EXIT

C11_Calendar ==
    LET s == Val(re3)
        calendar == Re3ActiveCalendar(s)
        sell == calendar.next_week_instrument
        series == s.historical_data[sell.expiry]
        percent == Val(s.config.SL_check)[sell.option_type]
        expiry == calendar.current_week_instrument.expiry
        capped == IF DateOf(NominalExit) > expiry THEN Combine(expiry, Time(15, 25))
                  ELSE NominalExit
        fires == TrailFireBars(series, BarsBetween(series, sell.entry, capped),
                               Round2((100 + percent) * sell.price, 100), percent)
        r == LastRow(Val(re3').output_df)
    IN  FiresAtFirst(series, fires, r.EntryExitType, Re3RowTime(r), Re3RowSellPrice(r))

C11_Straddle(option_type) ==
    LET s == Val(re2)
        df == Val(re2').output_df
        e == df[Len(df) - 1]
        r == df[Len(df)]
        series == IF option_type = "CE" THEN Val(re2').ce_historical_data
                  ELSE Val(re2').pe_historical_data
        percent == Val(s.config.SL_check)[option_type]
        fires == TrailFireBars(series,
                               BarsBetween(series, LegTime(e, option_type),
                                           Combine(s.current_date, s.config.exit_time)),
                               Round2((100 + percent) * LegPrice(e, option_type), 100),
                               percent)
    IN  FiresAtFirst(series, fires, LegType(r, option_type), LegTime(r, option_type),
                     LegPrice(r, option_type))

\* C11: a short leg with a trailing stop-loss fires at the first bar, in time order, whose
\* close is greater than the minimum of the initial stop-loss price (from the entry price)
\* and the candidates close x (100 + sl_percent) / 100 of the bars up to and including
\* that bar, and its exit is SL_EXIT at that bar's close and timestamp; with a stored
\* 120.00 and sl_percent 20, a bar closing at 90.00 lowers the stored price to 108.00 and
\* a following bar closing at 110.00 fires.  Calendar engine (sell leg, every exit that
\* takes no more lots than the position holds) and straddle engine (both legs).
C11_TrailingFiresAtFirstBar ==
    [][/\ (/\ Re3ExitStep
           /\ Val(re3).config.trailing_sl /\ Val(re3).config.SL_check # None
           /\ LastRow(Val(re3').output_df).LotSize
                <= Re3ActiveCalendar(Val(re3)).next_week_instrument.lot_size)
            => C11_Calendar
       /\ (/\ engine = "rule_engine2"
           /\ Val(re2).config.SL_check # None
           /\ Len(Val(re2').output_df) = Len(Val(re2).output_df) + 2)
            => \A option_type \in {"CE", "PE"} : C11_Straddle(option_type)
       /\ LET scan == TrailingScan(<<[ticker_datetime |-> 1, close |-> 9000],
                                     [ticker_datetime |-> 2, close |-> 11000]>>,
                                   1, 12000, 20, TRUE, <<>>)
          IN  /\ scan.hit /\ scan.ticker_datetime = 2 /\ scan.close = 11000
              /\ scan.sl_price = 10800]_vars

(***************************************************************************)
(* C12                                                                     *)
(***************************************************************************)
\* The calendars that the calendar engine holds.
Re3Calendars ==
    IF engine = "rule_engine3"
    THEN {Val(c) : c \in {Val(re3).CE_CALENDAR, Val(re3).PE_CALENDAR} \ {None}}
    ELSE {}

\* C12: after every exit of a calendar spread that reduces the lot size, for any sequence
\* of exit signals, the buy leg (current week) and the sell leg (next week) of the spread
\* hold equal remaining lot sizes.
C12_EqualLegLotSizes ==
    \A calendar \in Re3Calendars :
        calendar.current_week_instrument.lot_size = calendar.next_week_instrument.lot_size

\* A calendar that an exit reduced and left open, entered with more lots than it holds.
C12_Witness ==
    /\ engine = "rule_engine3"
    /\ Len(Val(re3).output_df) >= 2
    /\ Re3IsExitRow(LastRow(Val(re3).output_df))
    /\ \E calendar \in Re3Calendars :
        /\ calendar.current_week_instrument.lot_size = 1
        /\ calendar.next_week_instrument.lot_size = 1
        /\ \E k \in 1..Len(Val(re3).output_df) :
            /\ ~Re3IsExitRow(Val(re3).output_df[k])
            /\ Val(re3).output_df[k].Trade = LastRow(Val(re3).output_df).Trade
            /\ Val(re3).output_df[k].LotSize = 2

(***************************************************************************)
(* C13                                                                     *)
(***************************************************************************)
\* The valid trading days from a day to a last day, in order.
RECURSIVE ValidDaysFrom(_, _)
ValidDaysFrom(date, last) ==
    IF date > last THEN <<>>
    ELSE <<date>> \o ValidDaysFrom(GetNextValidDate({}, date), last)

\* The rows a step of the pair engine appends to the ledger.
HullNewRows == SubSeq(Val(hull').output_df, Len(Val(hull).output_df) + 1, Len(Val(hull').output_df))

\* A step of the pair engine that is one call of soft_entry_exit that ends without a
\* fatal error.
HullRolloverStep ==
    /\ engine = "rule_engine1"
    /\ HullIsEntryTaken(Val(hull))
    /\ Val(hull).config.close_position_day_end
    /\ Val(hull') # Val(hull)
    /\ ~Val(hull').raised

\* A row of a soft exit at the end of a day: a leg leaves at 15:25 of the day unless its
\* stop-loss or take-profit fired.
IsSoftExitRow(r, date) ==
    \A option_type \in {"CE", "PE"} :
        /\ LegType(r, option_type) \in {SOFT_EXIT, NO_TRADE, SL_EXIT, TAKE_PROFIT_EXIT}
        /\ LegType(r, option_type) \in {SOFT_EXIT, NO_TRADE} =>
                LegTime(r, option_type) = Combine(date, Time(15, 25))

\* A row of a soft re-entry at 09:15 of a day.
IsSoftEntryRow(r, date) ==
    /\ \A option_type \in {"CE", "PE"} :
        /\ LegType(r, option_type) \in {SOFT_ENTRY, ""}
        /\ LegTime(r, option_type) = Combine(date, Time(9, 15))
    /\ \E option_type \in {"CE", "PE"} : LegType(r, option_type) = SOFT_ENTRY

\* A row of an ordinary exit under the nominal exit time, capped at the day last.
IsOrdinaryExitRow(r, nominal, last) ==
    \A option_type \in {"CE", "PE"} :
        /\ LegType(r, option_type) \in
                {EXIT_SIGNAL, EXPIRY_EXIT, SL_EXIT, TAKE_PROFIT_EXIT, CE_PREMIUM_EXIT,
                 INVALID_EXIT}
        /\ LegType(r, option_type) = EXIT_SIGNAL =>
                LegTime(r, option_type) = nominal /\ DateOf(nominal) = last
        /\ LegType(r, option_type) = EXPIRY_EXIT =>
                DateOf(LegTime(r, option_type)) = last /\ DateOf(nominal) > last

C13_Rollover ==
    LET h == Val(hull)
        last == Min2(DateOf(NominalExit), Val(h.active_instrument_expiry))
        days == ValidDaysFrom(DateOf(Val(h.entry_datetime)), last)
        rows == HullNewRows
        full == 2 * Len(days) - 1
        stopped == \/ ~Val(hull').trade_pe_next_day /\ ~Val(hull').trade_ce_next_day
                   \/ ~HullIsEntryTaken(Val(hull'))
    IN  /\ Len(days) >= 1 /\ days[Len(days)] = last
        /\ Len(rows) <= full
        /\ Len(rows) % 2 = 1
        /\ Len(rows) < full => stopped
        /\ \A i \in 1..Len(rows) :
            IF i = full THEN IsOrdinaryExitRow(rows[i], NominalExit, last)
            ELSE IF i % 2 = 1 THEN IsSoftExitRow(rows[i], days[(i + 1) \div 2])
            ELSE IsSoftEntryRow(rows[i], days[i \div 2 + 1])

LegStoppedIn(r, option_type) ==
    LegType(r, option_type) \in {SL_EXIT, TAKE_PROFIT_EXIT, NO_TRADE}

C14_Rollover ==
    LET rows == HullNewRows
    IN  /\ \A i \in 1..Len(rows) : \A j \in (i + 1)..Len(rows) :
            \A option_type \in {"CE", "PE"} :
                LegType(rows[i], option_type) \in {SL_EXIT, TAKE_PROFIT_EXIT} =>
                    LegType(rows[j], option_type) # SOFT_ENTRY
        /\ \A i \in 1..(Len(rows) - 1) :
            ~(\A option_type \in {"CE", "PE"} :
                \E k \in 1..i : k % 2 = 1 /\ LegStoppedIn(rows[k], option_type))

\* C14: within one day-end rollover, a leg whose stop-loss or take-profit fired on a soft
\* exit is not re-opened by a later soft re-entry of the same signal, and once both legs
\* are stopped the rollover ends without a further exit or entry.
C14_StoppedLegStaysClosed == [][HullRolloverStep => C14_Rollover]_vars

\* A ledger in which the soft exit of one row stopped the CE leg alone and the next row
\* is the soft re-entry of the PE leg alone.
C14_Witness ==
    /\ engine = "rule_engine1"
    /\ Val(hull).config.close_position_day_end
    /\ \E i \in 1..(Len(Val(hull).output_df) - 1) :
        LET df == Val(hull).output_df
        IN  /\ df[i].CEEntryExitType \in {SL_EXIT, TAKE_PROFIT_EXIT}
            /\ df[i].PEEntryExitType = SOFT_EXIT
            /\ df[i + 1].PEEntryExitType = SOFT_ENTRY
            /\ df[i + 1].CEEntryExitType = ""

\* A ledger whose last row is a soft exit that found one leg closed and stopped the
\* other: the rollover ended there.
C14_BothStopped ==
    /\ engine = "rule_engine1"
    /\ Val(hull).config.close_position_day_end
    /\ Len(Val(hull).output_df) >= 2
    /\ LET r == LastRow(Val(hull).output_df)
       IN  /\ LegStoppedIn(r, "CE") /\ LegStoppedIn(r, "PE")
           /\ NO_TRADE \in {r.CEEntryExitType, r.PEEntryExitType}

(***************************************************************************)
(* C15                                                                     *)
(***************************************************************************)
\* A step of the pair engine that is the entry of an ET row, without a fatal error.
HullEntryStep ==
    /\ engine = "rule_engine1"
    /\ ~HullIsEntryTaken(Val(hull))
    /\ Val(hull') # Val(hull)
    /\ ~Val(hull').raised

\* The premium of the CE leg at the entry the step took exceeds the configured cap
\* (per lot: the lot size multiplies both sides).
CePremiumExceedsCap(s) ==
    /\ s.config.ce_premium_check # None
    /\ Val(PriceByDatetime(s.ce_historical_data, Val(s.entry_datetime)))
            * s.config.quantity_per_lot
          > Val(s.config.ce_premium_check).premium

\* The entry left the CE role flat, opened the PE leg and appended one row.
CeSkippedAtEntry ==
    /\ Val(hull').CE_ENTRY_INSTRUMENT = None
    /\ Val(hull').PE_ENTRY_INSTRUMENT # None
    /\ Len(Val(hull').output_df) = Len(Val(hull).output_df) + 1
    /\ LastRow(Val(hull').output_df).PEEntryExitType = ENTRY_SIGNAL
    /\ LastRow(Val(hull').output_df).PEEntryExitTime = Val(Val(hull').entry_datetime)

\* C15 as stated: when a premium cap is configured and the CE leg's premium exceeds it at
\* entry, the CE role stays flat, the PE leg is still opened, and the one row appended
\* for the entry is annotated with the reason the CE leg was skipped.
C15_EntryRowAnnotated ==
    [][HullEntryStep /\ CePremiumExceedsCap(Val(hull')) =>
            /\ CeSkippedAtEntry
            /\ LastRow(Val(hull').output_df).CEEntryExitType # ""]_vars

\* C15, amended: when a premium cap is configured and the CE leg's premium exceeds it at
\* a signal entry, the CE role stays flat, the PE leg is still opened, and one row is
\* appended for the entry whose CE entry type is blank; the reason is written by the
\* ordinary exit of the flat CE leg, whose row is typed CE_PREMIUM_EXIT.
C15_EntryRowBlank ==
    [][/\ HullEntryStep /\ CePremiumExceedsCap(Val(hull')) =>
            /\ CeSkippedAtEntry
            /\ LastRow(Val(hull').output_df).CEEntryExitType = ""
       /\ (/\ engine = "rule_engine1" /\ HullIsEntryTaken(Val(hull))
           /\ Val(hull).CE_ENTRY_INSTRUMENT = None
           /\ ~Val(hull).config.close_position_day_end
           /\ Val(hull') # Val(hull) /\ ~Val(hull').raised) =>
            LastRow(Val(hull').output_df).CEEntryExitType = CE_PREMIUM_EXIT]_vars

\* The pair engine right after an entry that skipped the CE leg for its premium.
C15_Witness ==
    /\ engine = "rule_engine1"
    /\ Val(hull).entry_datetime # None
    /\ CePremiumExceedsCap(Val(hull))
    /\ Val(hull).CE_ENTRY_INSTRUMENT = None
    /\ Val(hull).PE_ENTRY_INSTRUMENT # None
    /\ Len(Val(hull).output_df) = 1
    /\ LastRow(Val(hull).output_df).CEEntryExitType = ""

(***************************************************************************)
(* C16                                                                     *)
(***************************************************************************)
\* The fill types whose price is looked up at the fill time (a stop-loss or take-profit
\* fill takes the close of the bar that fired it).
LookupFills == {ENTRY_SIGNAL, SOFT_ENTRY, EXIT_SIGNAL, EXPIRY_EXIT, SOFT_EXIT}

\* The lookup of a leg's series at a time finds no bar.
NoBar(s, option_type, dt) == PriceByDatetime(HullHistoricalData(s, option_type), dt) = None

\* The (strike, timestamp) pair is covered by the allow-list of the config.
AllowListed(s, dt) ==
    \E x \in s.config.missing_data :
        x.strike = Val(s.entry_strike) /\ x.start_datetime <= dt /\ dt <= x.end_datetime

\* A row took each looked-up price from the bar, or 0 where there is no bar and the
\* pair is covered by the allow-list.
LookupRow(s, r) ==
    \A option_type \in {"CE", "PE"} :
        LegType(r, option_type) \in LookupFills =>
            IF NoBar(s, option_type, LegTime(r, option_type))
            THEN /\ AllowListed(s, LegTime(r, option_type))
                 /\ LegPrice(r, option_type) = 0
            ELSE LegPrice(r, option_type) =
                    Val(PriceByDatetime(HullHistoricalData(s, option_type),
                                        LegTime(r, option_type)))

\* The times at which a step may look a price up: the entry time at an entry; at an exit
\* the capped nominal exit time and, under the day-end rollover, 15:25 and 09:15 of the
\* days up to it.
LookupTimes ==
    IF ~HullIsEntryTaken(Val(hull)) THEN {Val(Val(hull').entry_datetime)}
    ELSE LET nominal == HullNominalExit(Val(hull), NominalExit, FALSE).datetime
         IN  IF ~Val(hull).config.close_position_day_end THEN {nominal}
             ELSE {nominal} \cup
                  {Combine(d, m) : d \in DateOf(Val(Val(hull).entry_datetime))..DateOf(nominal),
                                   m \in {Time(9, 15), Time(15, 25)}}

\* A lookup of the step found no bar for a pair the allow-list does not cover.
UncoveredLookup ==
    \E option_type \in {"CE", "PE"}, dt \in LookupTimes :
        /\ NoBar(Val(hull'), option_type, dt)
        /\ ~AllowListed(Val(hull'), dt)
        /\ HullIsEntryTaken(Val(hull)) => LegSlot(Val(hull), option_type) # None

\* C16: a price lookup at a fill time that finds no bar gives the price 0 and lets the
\* run continue when the (strike, timestamp) pair is covered by the missing-data
\* allow-list, and raises the fatal error otherwise; there is no other outcome, at entry
\* and at exit, for each leg.
C16_MissingBar ==
    [][(engine = "rule_engine1" /\ Val(hull') # Val(hull)) =>
        /\ ~Val(hull').raised =>
                \A i \in 1..Len(HullNewRows) : LookupRow(Val(hull'), HullNewRows[i])
        /\ Val(hull').raised => UncoveredLookup
        /\ (~HullIsEntryTaken(Val(hull)) /\ UncoveredLookup) => Val(hull').raised]_vars

\* A run that went on past an exit by the signal whose lookup found no bar: the row
\* holds the price 0.
C16_Witness ==
    /\ engine = "rule_engine1" /\ ~Val(hull).raised
    /\ \E i \in 1..Len(Val(hull).output_df), option_type \in {"CE", "PE"} :
        LET r == Val(hull).output_df[i]
        IN  /\ LegType(r, option_type) = EXIT_SIGNAL
            /\ NoBar(Val(hull), option_type, LegTime(r, option_type))
            /\ LegPrice(r, option_type) = 0

\* A run the fatal error ended at the exit of its first trade.
C16_Raised ==
    /\ engine = "rule_engine1" /\ Val(hull).raised
    /\ Len(Val(hull).output_df) = 1

(***************************************************************************)
(* C17                                                                     *)
(***************************************************************************)
\* The engine object of the run, and whether the fatal error ended its processing.
RunRaised ==
    IF engine = "rule_engine1" THEN Val(hull).raised ELSE Val(re3).raised
RunLedger ==
    IF engine = "rule_engine1" THEN Val(hull).output_df ELSE Val(re3).output_df

\* C17: a run is all-or-nothing for its output: when the processing of a signal raised
\* the fatal error the ledger is never written, and the ledger is written only after
\* every signal was processed without a fatal error (it is the ledger of the engine, and
\* no signal is processed after it).
C17_AllOrNothing ==
    [][/\ RunRaised => output_excel_file = None /\ output_excel_file' = None
       /\ output_excel_file' # output_excel_file =>
            /\ output_excel_file = None
            /\ ~RunRaised
            /\ output_excel_file' = Some(RunLedger)
       /\ output_excel_file # None => UNCHANGED <<hull, re3, row_index, clock>>]_vars

\* A ledger written after an entry and an exit.
C17_Witness ==
    /\ output_excel_file # None
    /\ Len(Val(output_excel_file)) >= 2

\* A run the fatal error ended after it had put a row in its ledger: nothing is written.
C17_Aborted ==
    /\ engine \in {"rule_engine1", "rule_engine3"}
    /\ RunRaised /\ Len(RunLedger) >= 1
    /\ output_excel_file = None

(***************************************************************************)
(* C18                                                                     *)
(***************************************************************************)
\* The StrategyAnalysis of a leg role of the pair engine, and the profit or loss a row
\* holds for the role.
HullAnalysis(s, option_type) ==
    IF option_type = "CE" THEN s.ce_strategy_analysis ELSE s.pe_strategy_analysis
LegProfitLoss(r, option_type) ==
    IF option_type = "CE" THEN r.CEProfitLoss ELSE r.PEProfitLoss

\* The fill types of a leg that is exited, and of a leg that is opened.
ExitFills == {EXIT_SIGNAL, EXPIRY_EXIT, SL_EXIT, TAKE_PROFIT_EXIT, SOFT_EXIT}
EntryFills == {ENTRY_SIGNAL, SOFT_ENTRY}

\* The rows of a step that exit the leg of a role, in order, and those that open it.
LegExits(option_type) ==
    SelectSeq(HullNewRows, LAMBDA r : LegType(r, option_type) \in ExitFills)
LegEntries(option_type) ==
    SelectSeq(HullNewRows, LAMBDA r : LegType(r, option_type) \in EntryFills)

\* A step of the pair engine that ends without a fatal error.
HullStep == engine = "rule_engine1" /\ Val(hull') # Val(hull) /\ ~Val(hull').raised

\* The analysis of a role after a step holds one more trade outcome and one more point
\* of the equity curve for each exit of the leg, and nothing else of its outcome
\* bookkeeping moved.
RecordedOncePerExit(option_type) ==
    LET before == HullAnalysis(Val(hull), option_type)
        after == HullAnalysis(Val(hull'), option_type)
        exits == LegExits(option_type)
        n == Len(before.equity_curve)
    IN  /\ after.win_trades + after.loss_trades
                = before.win_trades + before.loss_trades + Len(exits)
        /\ Len(after.equity_curve) = n + Len(exits)
        /\ \A k \in 1..Len(exits) :
                after.equity_curve[n + k] =
                    (IF n + k = 1 THEN Val(after.initial_capital)
                     ELSE after.equity_curve[n + k - 1])
                    + LegProfitLoss(exits[k], option_type)
        /\ Len(exits) = 0 =>
                /\ after.profit = before.profit /\ after.loss = before.loss
                /\ after.win_trades = before.win_trades
                /\ after.consecutive_win_loss = before.consecutive_win_loss

\* The rows of a step that are entries, and the lot size the step enters with: the
\* Contracts of its signal, which the first row of the step holds.
EntryRows ==
    SelectSeq(HullNewRows,
              LAMBDA r : \E option_type \in {"CE", "PE"} :
                            LegType(r, option_type) \in EntryFills)
EnteredLotSize == HullNewRows[1].LotSize

\* C18 as stated: StrategyAnalysis changes only in a step that exits a leg, once per leg
\* exited, and an entry step leaves it unchanged.
C18_EntryLeavesAnalysisUnchanged ==
    [][HullStep =>
        \A option_type \in {"CE", "PE"} :
            /\ RecordedOncePerExit(option_type)
            /\ Len(LegExits(option_type)) = 0 =>
                    HullAnalysis(Val(hull'), option_type)
                        = HullAnalysis(Val(hull), option_type)]_vars

\* C18, amended: in the pair engine the outcome bookkeeping of a role's StrategyAnalysis
\* (profit and loss totals, win and loss counters, streak tracker, equity curve) changes
\* only in a step that exits the leg, once per exit of the leg; an entry changes
\* total_trades, by one for each role that holds a leg after it (the legs a signal entry
\* opens), and lot_size, raised to the largest lot size entered, and nothing else.
C18_OutcomesOncePerExit ==
    [][HullStep =>
        \A option_type \in {"CE", "PE"} :
            LET before == HullAnalysis(Val(hull), option_type)
                after == HullAnalysis(Val(hull'), option_type)
            IN  /\ RecordedOncePerExit(option_type)
                /\ after.total_trades >= before.total_trades + Len(LegEntries(option_type))
                /\ after.total_trades <= before.total_trades + Len(EntryRows)
                /\ ~HullIsEntryTaken(Val(hull)) =>
                        /\ Len(EntryRows) = 1
                        /\ after.total_trades
                                = before.total_trades + Len(LegEntries(option_type))
                /\ after.lot_size = IF Len(EntryRows) = 0 THEN before.lot_size
                                    ELSE Max2(before.lot_size, EnteredLotSize)
                /\ after.initial_capital = before.initial_capital]_vars

\* The pair engine after the entries of two trades and the exit of the first: the PE
\* analysis counts two trades and holds one point of the equity curve.
C18_Witness ==
    /\ engine = "rule_engine1"
    /\ ~Val(hull).config.close_position_day_end
    /\ Len(Val(hull).output_df) = 3
    /\ Val(hull).pe_strategy_analysis.total_trades = 2
    /\ Len(Val(hull).pe_strategy_analysis.equity_curve) = 1
    /\ Val(hull).pe_strategy_analysis.win_trades
            + Val(hull).pe_strategy_analysis.loss_trades = 1

(***************************************************************************)
(* C19, C20                                                                *)
(***************************************************************************)
\* C19: the drawdown property returns None, without raising an error, when no initial
\* capital is configured and also when the equity curve holds a single point.
C19_DrawdownNone ==
    engine = "strategy_analysis" =>
        ((Val(analysis).initial_capital = None \/ Len(Val(analysis).equity_curve) = 1) =>
            Drawdown(Val(analysis)) = [raised |-> FALSE, value |-> None])

\* The largest decline of a curve from a point to the same or a later point.
MaxDecline(curve) ==
    CHOOSE d \in {curve[i] - curve[j] : i \in 1..Len(curve), j \in 1..Len(curve)} :
        /\ \E i \in 1..Len(curve) : \E j \in i..Len(curve) : d = curve[i] - curve[j]
        /\ \A i \in 1..Len(curve) : \A j \in i..Len(curve) : d >= curve[i] - curve[j]

\* C20: for every equity curve with at least two points and initial capital configured,
\* drawdown equals the largest peak-to-trough decline of the curve, the maximum over
\* positions i <= j of curve[i] - curve[j], in absolute currency units.
C20_DrawdownIsMaxDecline ==
    (/\ engine = "strategy_analysis"
     /\ Val(analysis).initial_capital # None
     /\ Len(Val(analysis).equity_curve) >= 2) =>
        Drawdown(Val(analysis)) =
            [raised |-> FALSE, value |-> Some(MaxDecline(Val(analysis).equity_curve))]

\* What the property does on the curves that fall somewhere: it returns the largest
\* decline.
C20_OnFallingCurves ==
    (/\ engine = "strategy_analysis"
     /\ Val(analysis).initial_capital # None
     /\ Len(Val(analysis).equity_curve) >= 2
     /\ MaxDecline(Val(analysis).equity_curve) > 0) =>
        Drawdown(Val(analysis)) =
            [raised |-> FALSE, value |-> Some(MaxDecline(Val(analysis).equity_curve))]

(***************************************************************************)
(* C21                                                                     *)
(***************************************************************************)
\* The StrategyAnalysis objects of a state: the one fed directly, or those of the
\* engine that runs.
Analyses ==
    IF engine = "strategy_analysis" THEN {Val(analysis)}
    ELSE IF engine = "rule_engine1"
    THEN {Val(hull).ce_strategy_analysis, Val(hull).pe_strategy_analysis}
    ELSE IF engine = "rule_engine2"
    THEN {Val(re2).ce_strategy_analysis, Val(re2).pe_strategy_analysis}
    ELSE {Val(re3).strategy_analysis}

\* C21: every derived ratio of StrategyAnalysis (avg_win, avg_loss, win_percent,
\* loss_percent, win_ratio, avg_win_loss, profit_potential, capital_returns) returns 0
\* and raises no error when the denominator of its division is 0.
C21_RatiosGuardZero ==
    \A sa \in Analyses :
        /\ sa.win_trades = 0 => AvgWin(sa) = Returned(0)
        /\ sa.loss_trades = 0 => AvgLoss(sa) = Returned(0)
        /\ sa.total_trades = 0 => WinPercent(sa) = Returned(0)
        /\ sa.total_trades = 0 => LossPercent(sa) = Returned(0)
        /\ sa.loss_trades = 0 => WinRatio(sa) = Returned(0)
        /\ Val(AvgLoss(sa).value) = 0 => AvgWinLoss(sa) = Returned(0)
        /\ Abs(Val(AvgLoss(sa).value)) * sa.loss_trades = 0 =>
                ProfitPotential(sa) = Returned(0)
        /\ sa.initial_capital = Some(0) => CapitalReturns(sa) = Returned(0)

\* The seven ratios that test their denominator first do return 0.
C21_GuardedRatios ==
    \A sa \in Analyses :
        /\ sa.win_trades = 0 => AvgWin(sa) = Returned(0)
        /\ sa.loss_trades = 0 => AvgLoss(sa) = Returned(0)
        /\ sa.total_trades = 0 => WinPercent(sa) = Returned(0) /\ LossPercent(sa) = Returned(0)
        /\ sa.loss_trades = 0 => WinRatio(sa) = Returned(0)
        /\ Val(AvgLoss(sa).value) = 0 => AvgWinLoss(sa) = Returned(0)
        /\ Abs(Val(AvgLoss(sa).value)) * sa.loss_trades = 0 =>
                ProfitPotential(sa) = Returned(0)
        /\ \A ratio \in {AvgWin(sa), AvgLoss(sa), WinPercent(sa), LossPercent(sa),
                         WinRatio(sa), AvgWinLoss(sa), ProfitPotential(sa)} :
                ~ratio.raised

(***************************************************************************)
(* C22                                                                     *)
(***************************************************************************)
\* The sign of a traded profit or loss: 0 counts as a loss.
SignOf(profit_loss) == IF profit_loss > 0 THEN 1 ELSE -1

\* The tracker after a trade that continues the streak of its sign (the first trade
\* continues either): one more in the running counter of the sign.
Continued(c, sign) ==
    IF sign = 1
    THEN [prev_trade |-> 1, temp_consecutive_win |-> c.temp_consecutive_win + 1,
          consecutive_win |-> c.consecutive_win,
          temp_consecutive_loss |-> c.temp_consecutive_loss,
          consecutive_loss |-> c.consecutive_loss]
    ELSE [prev_trade |-> -1, temp_consecutive_win |-> c.temp_consecutive_win,
          consecutive_win |-> c.consecutive_win,
          temp_consecutive_loss |-> c.temp_consecutive_loss + 1,
          consecutive_loss |-> c.consecutive_loss]

\* The tracker after a trade that flips the sign: the streak that ended is committed and
\* its running counter reset.
Flipped(c, sign) ==
    IF sign = -1
    THEN [prev_trade |-> -1, temp_consecutive_win |-> 0,
          consecutive_win |-> IF c.consecutive_win >= c.temp_consecutive_win
                              THEN c.consecutive_win ELSE c.temp_consecutive_win,
          temp_consecutive_loss |-> c.temp_consecutive_loss,
          consecutive_loss |-> c.consecutive_loss]
    ELSE [prev_trade |-> 1, temp_consecutive_win |-> c.temp_consecutive_win,
          consecutive_win |-> c.consecutive_win,
          temp_consecutive_loss |-> 0,
          consecutive_loss |-> IF c.consecutive_loss >= c.temp_consecutive_loss
                               THEN c.consecutive_loss ELSE c.temp_consecutive_loss]

\* C22: on a sign continuation the streak tracker increments the running counter of that
\* sign by one; on a sign flip it sets the best of the streak that just ended to
\* max(best, running), resets that running counter to 0 and changes nothing else but the
\* previous-trade sign; a profit or loss of 0 counts as a loss.
C22_StreakStep ==
    [][(engine = "strategy_analysis" /\ trades' # trades) =>
        LET c == Val(analysis).consecutive_win_loss
            sign == SignOf(trades'[Len(trades')])
        IN  Val(analysis').consecutive_win_loss =
                IF c.prev_trade = -sign THEN Flipped(c, sign) ELSE Continued(c, sign)]_vars

\* The tracker after a streak of two wins that a trade of 0 broke and a win that broke
\* the losing streak in turn.
C22_Witness ==
    /\ engine = "strategy_analysis"
    /\ Len(trades) = 4
    /\ trades[1] > 0 /\ trades[2] > 0 /\ trades[3] = 0 /\ trades[4] > 0
    /\ Val(analysis).consecutive_win_loss.consecutive_win = 2
    /\ Val(analysis).consecutive_win_loss.temp_consecutive_loss = 0

(***************************************************************************)
(* C23                                                                     *)
(***************************************************************************)
\* C23: with an initial capital configured every leg exit appends exactly one point to
\* the equity curve, the previous point plus the leg's profit or loss (the initial
\* capital plus it for the first point), so the curve has win_trades + loss_trades points
\* and its last point is initial capital + cumulative profit + cumulative loss; without
\* an initial capital the curve stays empty.
C23_EquityCurve ==
    [][(engine = "strategy_analysis" /\ trades' # trades) =>
        LET before == Val(analysis)
            after == Val(analysis')
            profit_loss == trades'[Len(trades')]
            n == Len(before.equity_curve)
        IN  IF before.initial_capital = None
            THEN after.equity_curve = <<>>
            ELSE /\ after.equity_curve =
                        before.equity_curve \o
                            <<(IF n = 0 THEN Val(before.initial_capital)
                               ELSE before.equity_curve[n]) + profit_loss>>
                 /\ Len(after.equity_curve) = after.win_trades + after.loss_trades
                 /\ after.equity_curve[n + 1] =
                        Val(after.initial_capital) + after.profit + after.loss]_vars

\* An equity curve of three points that rose and fell from an initial capital of 100.
C23_Witness ==
    /\ engine = "strategy_analysis"
    /\ Val(analysis).initial_capital = Some(100)
    /\ trades = <<5, -2, 3>>
    /\ Val(analysis).equity_curve = <<105, 103, 106>>

RowRead == Val(sheet')[Len(Val(sheet'))].row

\* C25: in the signal loop of the pair engine an ENTRY signal received while any leg is
\* open and an EXIT signal received while both roles are flat change nothing: no leg, no
\* analytics field and no ledger row; a leg is opened by a signal only while both roles
\* are flat, so at most one position per role is outstanding.
C25_IgnoredSignals ==
    [][(engine = "rule_engine1" /\ sheet # None /\ sheet' # sheet) =>
        LET open == \/ Val(hull).CE_ENTRY_INSTRUMENT # None
                    \/ Val(hull).PE_ENTRY_INSTRUMENT # None
        IN  /\ (RowRead.Signal = "ET" /\ open) => hull' = hull
            /\ (RowRead.Signal = "EX" /\ ~open) => hull' = hull
            /\ \A option_type \in {"CE", "PE"} :
                (/\ LegSlot(Val(hull'), option_type) # None
                 /\ RowRead.Signal = "ET"
                 /\ LegSlot(Val(hull'), option_type) # LegSlot(Val(hull), option_type))
                    => ~open]_vars

\* A sheet of an entry, a second entry the loop ignored and an exit.
C25_Witness ==
    /\ engine = "rule_engine1" /\ sheet # None
    /\ Len(Val(sheet)) = 3
    /\ Val(sheet)[1].row.Signal = "ET" /\ Val(sheet)[2].row.Signal = "ET"
    /\ Val(sheet)[3].row.Signal = "EX"
    /\ Len(Val(hull).output_df) >= 2
    /\ Val(hull).trade_count = 1

(***************************************************************************)
(* C26                                                                     *)
(***************************************************************************)
\* The sum of a sequence of amounts, and the wins and the losses among the outcomes.
RECURSIVE SumOf(_)
SumOf(amounts) == IF amounts = <<>> THEN 0 ELSE amounts[1] + SumOf(Tail(amounts))
Wins(outcomes) == SelectSeq(outcomes, LAMBDA p : p > 0)
Losses(outcomes) == SelectSeq(outcomes, LAMBDA p : p <= 0)

\* An analysis that took each outcome for a win or for a loss, and added it to the
\* cumulative profit or to the cumulative loss.
Classified(before, after, outcomes) ==
    /\ after.win_trades = before.win_trades + Len(Wins(outcomes))
    /\ after.loss_trades = before.loss_trades + Len(Losses(outcomes))
    /\ after.profit = before.profit + SumOf(Wins(outcomes))
    /\ after.loss = before.loss + SumOf(Losses(outcomes))

\* The outcomes of the leg exits of a step: of a role of the pair engine, and of the
\* calendar engine.
HullOutcomes(option_type) ==
    [k \in 1..Len(LegExits(option_type)) |->
        LegProfitLoss(LegExits(option_type)[k], option_type)]
Re3NewRows ==
    SubSeq(Val(re3').output_df, Len(Val(re3).output_df) + 1, Len(Val(re3').output_df))
Re3Outcomes ==
    LET exits == SelectSeq(Re3NewRows, Re3IsExitRow)
    IN  [k \in 1..Len(exits) |-> exits[k].NetProfitLoss]

\* The cumulative profit of an analysis is 0 or above and its cumulative loss 0 or below.
Signed(sa) == sa.profit >= 0 /\ sa.loss <= 0

\* C26: each leg exit takes its P&L for a win exactly when it is above 0 and for a loss
\* when it is 0 or below, increments exactly one of win_trades and loss_trades and adds
\* the P&L to the cumulative profit or to the cumulative loss; the cumulative profit is
\* never below 0 and the cumulative loss never above it.  The exits of a step are read
\* from the rows it added to the ledger, so a step a fatal error ended before it added
\* the row of its exits is compared on the signs only.
C26_WinLoss ==
    [][/\ HullStep =>
            \A option_type \in {"CE", "PE"} :
                Classified(HullAnalysis(Val(hull), option_type),
                           HullAnalysis(Val(hull'), option_type),
                           HullOutcomes(option_type))
       /\ (engine = "rule_engine3" /\ re3' # re3) =>
            Classified(Val(re3).strategy_analysis, Val(re3').strategy_analysis,
                       Re3Outcomes)
       /\ engine = "rule_engine1" =>
            Signed(Val(hull').ce_strategy_analysis) /\ Signed(Val(hull').pe_strategy_analysis)
       /\ engine = "rule_engine3" => Signed(Val(re3').strategy_analysis)]_vars

\* A leg that was exited at its entry price: the trade is a loss of 0.
C26_Witness ==
    /\ engine = "rule_engine1"
    /\ Len(Val(hull).output_df) = 2
    /\ LegType(Val(hull).output_df[2], "PE") \in ExitFills
    /\ Val(hull).output_df[2].PEProfitLoss = 0
    /\ Val(hull).pe_strategy_analysis.loss_trades = 1
    /\ Val(hull).pe_strategy_analysis.win_trades = 0
    /\ Val(hull).pe_strategy_analysis.loss = 0

(***************************************************************************)
(* C27                                                                     *)
(***************************************************************************)
\* The price a leg of the pair engine was entered at, for the exit in row k of a step:
\* that of the last entry of the role the step made before the row, or else that of the
\* leg the role held when the step began.
HullEntryPrice(option_type, k) ==
    LET entries == {j \in 1..(k - 1) : LegType(HullNewRows[j], option_type) \in EntryFills}
    IN  IF entries = {} THEN Val(LegSlot(Val(hull), option_type)).price
        ELSE LegPrice(HullNewRows[CHOOSE j \in entries : \A i \in entries : i <= j],
                      option_type)

\* The profit or loss of an exit of a long leg and of a short leg.
LongProfitLoss(entry_price, exit_price, lot_size, quantity_per_lot) ==
    (exit_price - entry_price) * lot_size * quantity_per_lot
ShortProfitLoss(entry_price, exit_price, lot_size, quantity_per_lot) ==
    (entry_price - exit_price) * lot_size * quantity_per_lot

\* The exits of a step of the pair engine hold the profit or loss of the Contracts of
\* the exit signal: the CE leg is long, the PE leg short.
HullExitsOfSignalSize ==
    \A k \in 1..Len(HullNewRows), option_type \in {"CE", "PE"} :
        LegType(HullNewRows[k], option_type) \in ExitFills =>
            /\ HullNewRows[k].LotSize = RowRead.Contracts
            /\ LegProfitLoss(HullNewRows[k], option_type) =
                IF option_type = "CE"
                THEN LongProfitLoss(HullEntryPrice("CE", k), HullNewRows[k].CEBuy,
                                    RowRead.Contracts, Val(hull).config.quantity_per_lot)
                ELSE ShortProfitLoss(HullEntryPrice("PE", k), HullNewRows[k].PESell,
                                     RowRead.Contracts, Val(hull).config.quantity_per_lot)

\* The exit of a step of the calendar engine holds the profit or loss of the Contracts
\* of the exit signal: the current week leg is long, the next week leg short.
Re3ExitOfSignalSize ==
    \A k \in 1..Len(Re3NewRows) :
        Re3IsExitRow(Re3NewRows[k]) =>
            LET r == Re3NewRows[k]
                calendar == Re3ActiveCalendar(Val(re3))
                buy == IF r.PECurrentWeekPrice # None THEN Val(r.PECurrentWeekPrice)
                       ELSE Val(r.CECurrentWeekPrice)
                sell == IF r.PEForwardWeekPrice # None THEN Val(r.PEForwardWeekPrice)
                        ELSE Val(r.CEForwardWeekPrice)
            IN  /\ r.LotSize = RowRead.Contracts
                /\ r.CurrentWeekProfitLoss =
                        LongProfitLoss(calendar.current_week_instrument.price, buy,
                                       RowRead.Contracts, Val(re3).config.quantity_per_lot)
                /\ r.ForwardWeekProfitLoss =
                        ShortProfitLoss(calendar.next_week_instrument.price, sell,
                                        RowRead.Contracts, Val(re3).config.quantity_per_lot)
                /\ r.NetProfitLoss = r.CurrentWeekProfitLoss + r.ForwardWeekProfitLoss

\* C27: the P&L of a leg exit is (exit price - entry price) x exited lot size x
\* quantity_per_lot for a long leg and (entry price - exit price) x exited lot size x
\* quantity_per_lot for a short leg, where the exited lot size is the lot size of the
\* exit signal and not the size the leg was entered with.
C27_ProfitLossOfExit ==
    [][(sheet # None /\ sheet' # sheet) =>
        /\ (engine = "rule_engine1" /\ ~Val(hull').raised) => HullExitsOfSignalSize
        /\ engine = "rule_engine3" => Re3ExitOfSignalSize]_vars

\* The pair engine entered two lots and an exit signal of one lot closed half of them
\* at another price than they were entered at.
C27_Witness ==
    /\ engine = "rule_engine1" /\ sheet # None /\ ~Val(hull).raised
    /\ Len(Val(sheet)) = 2
    /\ Val(sheet)[1].row.Signal = "ET" /\ Val(sheet)[1].row.Contracts = 2
    /\ Val(sheet)[2].row.Signal = "EX" /\ Val(sheet)[2].row.Contracts = 1
    /\ Len(Val(hull).output_df) = 2
    /\ LegType(Val(hull).output_df[2], "PE") \in ExitFills
    /\ Val(hull).output_df[2].PEProfitLoss # 0

(***************************************************************************)
(* C28                                                                     *)
(***************************************************************************)
\* The stop-loss price of a long leg: entry price x (100 - sl_percent) / 100, rounded
\* to 2 decimals.
LongStopPrice(entry_price, sl_percent) == Round2(entry_price * (100 - sl_percent), 100)

\* The first exit a step of the pair engine makes for an EX row: in
\* close-position-at-day-end mode the soft exit at 15:25 of the day of the signal entry
\* when that day is before the last day of the position, otherwise the exit of the
\* signal; and the time exit() caps it to.
FirstExitIsSoft ==
    LET s == Val(hull)
        exit_datetime == GetMarketHourDatetime(s.holidays, RowRead.DateTime)
    IN  /\ s.config.close_position_day_end
        /\ DateOf(Val(s.entry_datetime))
                < Min2(DateOf(exit_datetime), Val(s.active_instrument_expiry))
FirstExitDatetime ==
    LET s == Val(hull)
        exit_datetime == GetMarketHourDatetime(s.holidays, RowRead.DateTime)
    IN  HullNominalExit(s,
                        IF FirstExitIsSoft
                        THEN Combine(DateOf(Val(s.entry_datetime)), Time(15, 25))
                        ELSE exit_datetime,
                        FirstExitIsSoft).datetime

\* The bars the stop-loss of the long leg scans in that exit, and those of them that
\* close strictly below its stop-loss price.
LongScanned ==
    PriceRangeData(Val(hull).ce_historical_data, Val(Val(hull).CE_ENTRY_INSTRUMENT).entry,
                   FirstExitDatetime)
LongBelow ==
    {i \in 1..Len(LongScanned) :
        LongScanned[i].close < LongStopPrice(Val(Val(hull).CE_ENTRY_INSTRUMENT).price,
                                             Val(Val(hull).config.SL_check).CE)}

\* A step of the pair engine that exits its long leg for an EX row.
LongExitStep ==
    /\ engine = "rule_engine1" /\ sheet # None /\ sheet' # sheet
    /\ RowRead.Signal = "EX"
    /\ Val(hull).CE_ENTRY_INSTRUMENT # None
    /\ Val(hull).config.SL_check # None
    /\ Len(HullNewRows) >= 1

\* C28: the stop-loss price of a long leg is entry price x (100 - sl_percent) / 100
\* rounded to 2 decimals, and the stop-loss fires exactly at the first scanned bar whose
\* close is strictly below that price: the leg is then exited at that bar's close and
\* time as an SL exit; with an sl_percent of 100 the price is 0 and it never fires.
C28_LongStopLoss ==
    [][LongExitStep =>
        LET r == HullNewRows[1]
        IN  /\ (r.CEEntryExitType = SL_EXIT) = (LongBelow # {})
            /\ LongBelow # {} =>
                /\ r.CEBuy = LongScanned[Min(LongBelow)].close
                /\ r.CEEntryExitTime = LongScanned[Min(LongBelow)].ticker_datetime
            /\ Val(Val(hull).config.SL_check).CE = 100 => r.CEEntryExitType # SL_EXIT]_vars

\* A long leg entered at 100.25 under a stop-loss of 50 per cent: a bar at 50.12, the
\* stop-loss price, did not fire and the bar at 50.11 after it did.
C28_Witness ==
    /\ engine = "rule_engine1" /\ sheet # None
    /\ Val(Val(hull).config.SL_check).CE = 50
    /\ Len(Val(hull).output_df) >= 2
    /\ Val(hull).output_df[1].CEBuy = 10025
    /\ Val(hull).output_df[2].CEEntryExitType = SL_EXIT
    /\ Val(hull).output_df[2].CEBuy = 5011
    /\ \E i \in 1..Len(Val(hull).ce_historical_data) :
        /\ Val(hull).ce_historical_data[i].close = 5012
        /\ Val(hull).ce_historical_data[i].ticker_datetime
                < Val(hull).output_df[2].CEEntryExitTime
        /\ Val(hull).ce_historical_data[i].ticker_datetime
                > Val(hull).output_df[1].CEEntryExitTime

\* A long leg under a stop-loss of 100 per cent that fell to 50.11 and was exited by its
\* signal.
C28_NeverFires ==
    /\ engine = "rule_engine1" /\ sheet # None
    /\ Val(Val(hull).config.SL_check).CE = 100
    /\ Len(Val(hull).output_df) = 2
    /\ Val(hull).output_df[2].CEEntryExitType = EXIT_SIGNAL
    /\ Val(hull).output_df[2].CEBuy = 5011

(***************************************************************************)
(* C29                                                                     *)
(***************************************************************************)
\* The days that are neither a Saturday or Sunday nor a holiday, and the latest of them
\* on or before a date.
IsValidDay(holidays, date) == Weekday(date) \notin {5, 6} /\ date \notin holidays
LatestValidDay(holidays, date) ==
    CHOOSE d \in 0..date :
        /\ IsValidDay(holidays, d)
        /\ \A e \in (d + 1)..date : ~IsValidDay(holidays, e)

\* C29: get_valid_expiry(expiry) returns the latest date on or before expiry that is
\* neither a Saturday or Sunday nor a holiday.
C29_LatestValidDay ==
    (expiry_call # None /\ Val(expiry_call).returned # None) =>
        Val(Val(expiry_call).returned)
            = LatestValidDay(Val(expiry_call).holidays, Val(Val(expiry_call).expiry))

\* The same of the calls the engines make: the expiry is a Thursday (get_expiry and the
\* calendar engine pass the Thursday of a week), or it is a holiday.
C29_OnThursdaysAndHolidays ==
    (/\ expiry_call # None /\ Val(expiry_call).returned # None
     /\ \/ Weekday(Val(Val(expiry_call).expiry)) = 3
        \/ Val(Val(expiry_call).expiry) \in Val(expiry_call).holidays) =>
        Val(Val(expiry_call).returned)
            = LatestValidDay(Val(expiry_call).holidays, Val(Val(expiry_call).expiry))

\* A Thursday expiry whose walk back crossed a weekend: the Thursday to the Monday are
\* ruled out and the Friday of the week before is returned.
C29_WalkedBack ==
    /\ expiry_call # None
    /\ Val(expiry_call).expiry = Some(10)
    /\ Val(expiry_call).holidays = {10, 9, 8}
    /\ Val(expiry_call).returned # None

(***************************************************************************)
(* C30                                                                     *)
(***************************************************************************)
\* The bars of the series a call looked in that lie on the day of its timestamp, at or
\* after it.
CallSeries == HullHistoricalData(Val(hull), Val(price_call).option_type)
SameDayAtOrAfter ==
    {i \in 1..Len(CallSeries) :
        /\ DateOf(CallSeries[i].ticker_datetime) = DateOf(Val(Val(price_call).dt))
        /\ CallSeries[i].ticker_datetime >= Val(Val(price_call).dt)}

\* C30: the price lookup at a timestamp returns the close of the earliest bar of the
\* series that lies on the same calendar day as the timestamp and is at or after it,
\* and fails with the price-missing error when there is no such bar, even if there are
\* bars on later days.
C30_PriceLookup ==
    (price_call # None /\ Val(price_call).dt # None) =>
        IF SameDayAtOrAfter = {} THEN Val(price_call).returned = None
        ELSE \E i \in SameDayAtOrAfter :
                /\ \A j \in SameDayAtOrAfter :
                        CallSeries[i].ticker_datetime <= CallSeries[j].ticker_datetime
                /\ Val(price_call).returned = Some(CallSeries[i].close)

\* A lookup at Wednesday 15:25 in a series without the bar of 15:25: the close of 15:29
\* is returned.
C30_Witness ==
    /\ price_call # None
    /\ Val(price_call).option_type = "CE"
    /\ Val(price_call).dt = Some(Combine(2, Time(15, 25)))
    /\ \A i \in 1..Len(CallSeries) :
            CallSeries[i].ticker_datetime # Combine(2, Time(15, 25))
    /\ Val(price_call).returned = Some(Rising[Combine(2, Time(15, 29))])

\* A lookup at Wednesday 15:29 in a series whose next bar is of Thursday: the error.
C30_Fails ==
    /\ price_call # None
    /\ Val(price_call).option_type = "CE"
    /\ Val(price_call).dt = Some(Combine(2, Time(15, 29)))
    /\ Val(price_call).returned = None
    /\ \E i \in 1..Len(CallSeries) : DateOf(CallSeries[i].ticker_datetime) = 3

(***************************************************************************)
(* C34                                                                     *)
(***************************************************************************)
\* Row k of a ledger is a signal entry that opened the PE leg and discarded the CE leg,
\* and row j belongs to the same signal: no signal entry lies between them.
CeDiscardedAt(df, k) ==
    df[k].PEEntryExitType = ENTRY_SIGNAL /\ df[k].CEEntryExitType = ""
SameSignal(df, k, j) ==
    \A i \in (k + 1)..j : df[i].PEEntryExitType # ENTRY_SIGNAL
                          /\ df[i].CEEntryExitType # ENTRY_SIGNAL

\* C34: in close-position-at-day-end mode, when the CE leg is discarded by the premium
\* check at the true signal entry, no soft re-entry of that signal opens a CE leg: no
\* later row of the signal enters the CE role, and the role is flat while the signal's
\* position is the open one.
C34_NoCeAfterDiscard ==
    (engine = "rule_engine1" /\ Val(hull).config.close_position_day_end) =>
        LET df == Val(hull).output_df
        IN  \A k \in 1..Len(df) :
                CeDiscardedAt(df, k) =>
                    /\ \A j \in (k + 1)..Len(df) :
                            SameSignal(df, k, j) => df[j].CEEntryExitType \notin EntryFills
                    /\ SameSignal(df, k, Len(df)) => Val(hull).CE_ENTRY_INSTRUMENT = None

\* A signal entry discarded the CE leg and a soft re-entry of the next day, at which the
\* CE premium was within the cap, opened the PE leg alone.
C34_Witness ==
    /\ engine = "rule_engine1" /\ Val(hull).config.close_position_day_end
    /\ Len(Val(hull).output_df) >= 3
    /\ CeDiscardedAt(Val(hull).output_df, 1)
    /\ Val(hull).output_df[3].PEEntryExitType = SOFT_ENTRY
    /\ Val(hull).output_df[3].CEEntryExitType \notin EntryFills
    /\ Val(PriceByDatetime(Val(hull).ce_historical_data,
                           Val(hull).output_df[3].PEEntryExitTime))
            * Val(hull).config.quantity_per_lot
          <= Val(Val(hull).config.ce_premium_check).premium

(***************************************************************************)
(* C35                                                                     *)
(***************************************************************************)
\* C35: at every point of a calendar-spread run at most one of the PE calendar and the
\* CE calendar is open, and an entry signal of either kind received while a calendar is
\* open opens nothing: the engine is as it was.
C35_OneCalendar ==
    [][engine = "rule_engine3" =>
        /\ Val(re3').PE_CALENDAR = None \/ Val(re3').CE_CALENDAR = None
        /\ (/\ sheet # None /\ sheet' # sheet
            /\ RowRead.Signal \in {ENTRY_LONG, ENTRY_SHORT}
            /\ Val(re3).PE_CALENDAR # None \/ Val(re3).CE_CALENDAR # None)
                => re3' = re3]_vars

\* A sheet of an entry of one kind and, while its calendar is open, an entry of the other
\* kind: the first calendar is the open one and the ledger holds its row alone.
C35_Witness ==
    /\ engine = "rule_engine3" /\ sheet # None
    /\ Len(Val(sheet)) = 2
    /\ Val(sheet)[1].row.Signal = ENTRY_SHORT
    /\ Val(sheet)[2].row.Signal = ENTRY_LONG
    /\ Val(re3).CE_CALENDAR # None /\ Val(re3).PE_CALENDAR = None
    /\ Len(Val(re3).output_df) = 1

(***************************************************************************)
(* C36                                                                     *)
(***************************************************************************)
\* The next valid trading day after a date, and the time a signal time is to be mapped
\* to: 09:15 of the day before 09:15, 09:15 of the next valid trading day after 15:29.
NextValidDay(holidays, date) ==
    CHOOSE d \in (date + 1)..(date + 14) :
        /\ IsValidDay(holidays, d)
        /\ \A e \in (date + 1)..(d - 1) : ~IsValidDay(holidays, e)
MarketHourOf(holidays, signal_datetime) ==
    IF TimeOf(signal_datetime) < Time(9, 15)
    THEN Combine(DateOf(signal_datetime), Time(9, 15))
    ELSE IF TimeOf(signal_datetime) > Time(15, 29)
    THEN Combine(NextValidDay(holidays, DateOf(signal_datetime)), Time(9, 15))
    ELSE signal_datetime

\* C36: get_market_hour_datetime maps every signal time before 09:15 to 09:15 of the
\* same day and every signal time after 15:29 to 09:15 of the next valid trading day,
\* and returns every other time unchanged, so its result lies within 09:15 to 15:29.
C36_WithinMarketHours ==
    (market_hour_call # None /\ Val(market_hour_call).returned # None) =>
        LET returned == Val(Val(market_hour_call).returned)
        IN  /\ returned = MarketHourOf(Val(market_hour_call).holidays,
                                       Val(Val(market_hour_call).signal_datetime))
            /\ TimeOf(returned) >= Time(9, 15) /\ TimeOf(returned) <= Time(15, 29)

\* The same of the signal times from 09:00 to 15:59.
C36_FromNineToFour ==
    (/\ market_hour_call # None /\ Val(market_hour_call).returned # None
     /\ HourOf(Val(Val(market_hour_call).signal_datetime)) \in 9..15) =>
        LET returned == Val(Val(market_hour_call).returned)
        IN  /\ returned = MarketHourOf(Val(market_hour_call).holidays,
                                       Val(Val(market_hour_call).signal_datetime))
            /\ TimeOf(returned) >= Time(9, 15) /\ TimeOf(returned) <= Time(15, 29)

\* A signal of Friday 15:30 with the Monday a holiday: Tuesday 09:15 is returned.
C36_NextValidDay ==
    /\ market_hour_call # None
    /\ Val(market_hour_call).holidays = {7}
    /\ Val(market_hour_call).signal_datetime = Some(Combine(4, Time(15, 30)))
    /\ Val(market_hour_call).returned = Some(Combine(8, Time(9, 15)))

(***************************************************************************)
(* C37                                                                     *)
(***************************************************************************)
\* C37: in every reachable state of a pair-engine run, for each leg role win_trades +
\* loss_trades <= total_trades, so win_percent + loss_percent never exceeds 100 (held
\* in hundredths), for any mix of full exits, partial exits and day-end rollovers.
C37_OutcomesWithinTrades ==
    engine = "rule_engine1" =>
        \A option_type \in {"CE", "PE"} :
            LET sa == HullAnalysis(Val(hull), option_type)
            IN  /\ sa.win_trades + sa.loss_trades <= sa.total_trades
                /\ Val(WinPercent(sa).value) + Val(LossPercent(sa).value) <= 100 * 100

(***************************************************************************)
(* C38: the rollover of close_position_day_end keeps the lot size.         *)
(***************************************************************************)
\* An exit signal read in close_position_day_end mode while the PE leg is open, whose
\* first two ledger rows are the soft exit of the entry day and the soft re-entry of the
\* next valid day.
FirstRollover ==
    /\ engine = "rule_engine1"
    /\ Val(hull).config.close_position_day_end
    /\ Val(hull).PE_ENTRY_INSTRUMENT # None
    /\ RowRead.Signal = "EX"
    /\ Len(HullNewRows) >= 2
    /\ HullNewRows[1].PEEntryExitType = SOFT_EXIT
    /\ HullNewRows[2].PEEntryExitType = SOFT_ENTRY

\* C38: in close-position-at-day-end mode the soft re-entry that follows a soft exit
\* re-opens the PE leg with the lot size the leg had right before the soft exit, whatever
\* the lot size of the exit signal.
C38_RolloverKeepsLots ==
    [][FirstRollover =>
           HullNewRows[2].LotSize = Val(Val(hull).PE_ENTRY_INSTRUMENT).lot_size]_vars

\* The same of the exit signals whose lot size is the one the leg holds.
C38_RolloverOfWholeLeg ==
    [][(FirstRollover /\ RowRead.Contracts = Val(Val(hull).PE_ENTRY_INSTRUMENT).lot_size) =>
           HullNewRows[2].LotSize = Val(Val(hull).PE_ENTRY_INSTRUMENT).lot_size]_vars

(***************************************************************************)
(* C39: soft_entry_exit terminates.                                        *)
(***************************************************************************)
\* The loop date of a call of soft_entry_exit, and its final exit date.
LoopDate == Val(soft_call).exit_date
FinalExitDate ==
    Min2(DateOf(Val(soft_call).exit_datetime), Val(Val(hull).active_instrument_expiry))
InLoop == Val(soft_call).pc # "process_input"

\* C39: the call of soft_entry_exit returns, whatever the entry date, the exit date, the
\* expiry and the holidays: get_next_valid_date hands back a later date (the one the
\* closed form gives), so the loop date grows from one iteration to the next, and an
\* iteration whose date is the final exit date or a later one is the last.
C39_Terminates ==
    /\ [][/\ (Val(soft_call).pc = "get_next_valid_date" /\ Val(soft_call').pc = "entry") =>
                /\ LoopDate' > LoopDate
                /\ LoopDate' = GetNextValidDate(Val(hull).holidays, LoopDate)
          /\ InLoop => LoopDate' >= LoopDate
          /\ (Val(soft_call).pc = "while" /\ LoopDate >= FinalExitDate) =>
                Val(soft_call').pc = "return"]_vars
    /\ (Val(soft_call).pc = "while") ~> (Val(soft_call).pc = "return")

\* A call that returned after it rolled the position over a holiday and a weekend.
C39_Witness ==
    /\ soft_call # None
    /\ Val(soft_call).pc = "return"
    /\ 7 \in Val(hull).holidays
    /\ DateOf(Val(Val(soft_call).start.entry_datetime)) = 4
    /\ LoopDate >= 9
    /\ Len(Val(hull).output_df) >= 6

\* The call, stepped, leaves the engine as the loop SoftLoop computes it.
SoftLoopAgrees ==
    (soft_call # None /\ Val(soft_call).pc = "return") =>
        Val(hull) = SoftEntryExit(Val(soft_call).start, Val(soft_call).exit_datetime,
                                  Val(soft_call).lot_size)

(***************************************************************************)
(* C31: the live loop handles every signal once, in arrival order.         *)
(***************************************************************************)
\* A step of the live strategy that is an iteration of the loop of execute (one that
\* changed something), and the start of a new process.
LiveStep == engine = "live_rule_engine1" /\ Val(live).running /\ live' # live
LiveRestart == engine = "live_rule_engine1" /\ ~Val(live).running /\ Val(live').running

\* The calls of entry() and exit() a step made, the timestamps of the signals they
\* handled, and the signal the step received (a list of one, or none).
NewCalls == SubSeq(Val(live').calls, Len(Val(live).calls) + 1, Len(Val(live').calls))
Handled(calls) ==
    LET of_signals == SelectSeq(calls, LAMBDA c : c.flag = "signal")
    IN  [i \in 1..Len(of_signals) |-> Val(of_signals[i].signal)]
Arrived == SubSeq(Val(live').received, Len(Val(live).received) + 1, Len(Val(live').received))
Timestamps(signals) == [i \in 1..Len(signals) |-> signals[i].timestamp]

\* C31: an iteration outside market hours hands no signal to entry() or exit() and puts
\* the one it received at the end of the queue; an iteration in market hours hands the
\* queued signals, in the order they arrived, and then the one it received, each once,
\* and leaves the queue empty; a new process takes over the queue of the last one.
C31_HandledOnce ==
    [][/\ LiveStep =>
            IF IsMarketHour(Val(live').now)
            THEN /\ Handled(NewCalls) = Timestamps(Val(live).signal_queue \o Arrived)
                 /\ Val(live').signal_queue = <<>>
            ELSE /\ Handled(NewCalls) = <<>>
                 /\ Val(live').signal_queue = Val(live).signal_queue \o Arrived
       /\ (LiveRestart /\ ~Val(live').clean_up_flag) =>
            Val(live').signal_queue = Val(live).signal_queue]_vars

\* The same of the iterations that find the queue empty.
C31_EmptyQueue ==
    [][(LiveStep /\ Val(live).signal_queue = <<>>) =>
            IF IsMarketHour(Val(live').now)
            THEN /\ Handled(NewCalls) = Timestamps(Arrived)
                 /\ Val(live').signal_queue = <<>>
            ELSE /\ Handled(NewCalls) = <<>>
                 /\ Val(live').signal_queue = Arrived]_vars

(***************************************************************************)
(* C32: no stop-loss exit without a live price.                            *)
(***************************************************************************)
\* The symbol of the open position, and whether a tick of it has been stored.
HeldSymbol == Val(Val(live).entry_instrument).symbol_code
HasLivePrice == \E d \in Val(market).market_data : d.symbol = HeldSymbol

\* An iteration in market hours that received no signal and found no queue while a
\* position is open: the one that calls _sl_hit.
ChecksStopLoss ==
    /\ LiveStep
    /\ Val(live).entry_instrument # None
    /\ Val(live).signal_queue = <<>>
    /\ Arrived = <<>>
    /\ IsMarketHour(Val(live').now)

\* C32: while no live price of the symbol of the open position has been received, the
\* stop-loss check makes no stop-loss exit and asks for the subscription of the symbol
\* again.
C32_NoPriceNoHit ==
    [][(ChecksStopLoss /\ ~HasLivePrice) =>
            /\ \A i \in DOMAIN NewCalls : NewCalls[i].flag # "sl_hit"
            /\ Val(market').symbols_to_subscribe =
                    Val(market).symbols_to_subscribe \o <<HeldSymbol>>]_vars

(***************************************************************************)
(* C33: no subscription request is lost.                                   *)
(***************************************************************************)
\* C33: every symbol subscribe() was called with is, later on, among the symbols the
\* thread has subscribed on the websocket.
C33_NoRequestLost ==
    \A symbol \in OptionSymbols :
        (symbol \in Val(market).requested)
            ~> (symbol \in Elements(Val(market).existing_subscribe_symbol))

\* The symbols the class starts with are subscribed.
C33_IndexSubscribed ==
    <>(Elements(IndexSymbols) \subseteq Elements(Val(market).existing_subscribe_symbol))

(***************************************************************************)
(* C40: the entry-instrument file is the open position.                    *)
(***************************************************************************)
\* C40: every call of entry() and of exit() leaves the file of the entry instrument
\* there exactly when it leaves a position open, and holding that position with the lot
\* size that remains; a new process starts with the position of the file.
C40_FileIsPosition ==
    live # None =>
        /\ \A i \in DOMAIN Val(live).calls :
                Val(live).calls[i].entry_instrument_file = Val(live).calls[i].entry_instrument
        /\ Val(live).running => Val(live).entry_instrument = Val(live).entry_instrument_file

\* A new process that took over a position of which an exit signal had left one lot.
C40_Witness ==
    /\ live # None /\ Val(live).running
    /\ Val(live).entry_instrument # None
    /\ Val(live).entry_instrument_sl = None
    /\ Val(Val(live).entry_instrument).lot_size = 1
    /\ \E i \in DOMAIN Val(live).calls :
            /\ Val(live).calls[i].method = "exit"
            /\ Val(live).calls[i].flag = "signal"
            /\ Val(live).calls[i].entry_instrument = Val(live).entry_instrument

====
